---- MODULE Spec2Model ----
(***************************************************************************)
(* Seating-chart engine of classSitTable: layout geometry, seat order,     *)
(* centered placement, layout reconciliation, the three rotations, the     *)
(* classroom operations and the normalization of a persisted document.     *)
(*                                                                         *)
(* Conventions.  A seat grid is a sequence; the code's 0-based seat index  *)
(* i is position i + 1 of the sequence.  A student id is a positive        *)
(* number (createId hands out fresh ones), Null is the empty seat.  A name *)
(* is a sequence of character codes; the codes in WsChars are whitespace.  *)
(***************************************************************************)
EXTENDS Integers, Sequences, FiniteSets, TLC

VARIABLES classroom, clock, nextId, op, rotStart, rotations, appState, storage, migrations

vars == <<classroom, clock, nextId, op, rotStart, rotations, appState, storage, migrations>>

----------------------------------------------------------------------------
(* Program constants (classroom.ts:3-16)                                   *)

MIN_SIZE == 1
MIN_GROUPS == 3
MAX_GROUPS == 6
GROUP_CAPACITY == 6
GROUP_ROWS == 3
GROUP_ROW_SIZE == 2
THREE_ROWS == 3
DEFAULT_THREE_ROW_COLS == 6
MAX_THREE_ROW_COLS == 12
ARC_ROWS == 2
ARC_COLS == 18
MAX_STUDENTS == 36
APP_VERSION == 3

Null == 0

LayoutModes == {"GROUPS", "THREE_ROWS", "ARC"}
TimeModes == {"weekday", "weekend"}

----------------------------------------------------------------------------
(* Bounds of the model                                                     *)

\* Operations applied to the classroom in one behaviour of Spec.
MaxClock == 3
\* Rotations applied in one behaviour of SpecRot.
MaxRotations == 3
\* Students seated by hand, and seats cleared by hand, before the rotations of SpecRot.
MaxPlaced == 3
MaxCleared == 1
\* Math.random() is drawn from {0/d, 1/d, .., (d-1)/d}.
RandomDenom == 2

----------------------------------------------------------------------------
(* Arithmetic and sequence helpers                                         *)

Max(a, b) == IF a >= b THEN a ELSE b
Min(a, b) == IF a <= b THEN a ELSE b

\* Math.ceil(a / b) for a >= 0, b > 0
CeilDiv(a, b) == (a + b - 1) \div b

Range(s) == {s[i] : i \in DOMAIN s}

\* Array.prototype.slice(from, to) with 0-based, end-exclusive bounds
Slice(s, from, to) == SubSeq(s, Min(from, Len(s)) + 1, Min(to, Len(s)))

\* Array.prototype.filter(x => x !== null) / the truthiness filter on ids
NonEmpty(s) == SelectSeq(s, LAMBDA x : x # Null)

\* [...s.slice(1), s[0]]
RotateFirstToLast(s) == Append(Tail(s), Head(s))

\* seats[i0] = v for a 0-based index i0 (an array grows when written past its end)
SetAt(s, i0, v) ==
  IF i0 + 1 \in DOMAIN s
    THEN SubSeq(s, 1, i0) \o <<v>> \o SubSeq(s, i0 + 2, Len(s))
    ELSE [k \in 1..(i0 + 1) |-> IF k <= Len(s) THEN s[k] ELSE IF k = i0 + 1 THEN v ELSE Null]

createEmptySeats(capacity) == [i \in 1..Max(0, capacity) |-> Null]

----------------------------------------------------------------------------
(* Names: uniqueNames (classroom.ts:46-63)                                 *)

WsChars == {0, 1}
SpaceChar == <<0>>

\* rawName.replace(/\s+/g, ' '): every run of whitespace becomes one space
RECURSIVE CollapseWs(_, _, _)
CollapseWs(raw, i, out) ==
  IF i > Len(raw) THEN out
  ELSE IF raw[i] \in WsChars
    THEN CollapseWs(raw, i + 1,
           IF i > 1 /\ raw[i - 1] \in WsChars THEN out ELSE out \o SpaceChar)
    ELSE CollapseWs(raw, i + 1, Append(out, raw[i]))

\* String.prototype.trim()
RECURSIVE TrimLeft(_)
TrimLeft(s) == IF s # <<>> /\ Head(s) \in WsChars THEN TrimLeft(Tail(s)) ELSE s
RECURSIVE TrimRight(_)
TrimRight(s) ==
  IF s # <<>> /\ s[Len(s)] \in WsChars THEN TrimRight(SubSeq(s, 1, Len(s) - 1)) ELSE s
Trim(s) == TrimRight(TrimLeft(s))

\* The loop keeps the i-th name when its cleaned form is not blank and no
\* earlier name has the same cleaned form.
uniqueNames(input) ==
  LET cleaned == [i \in DOMAIN input |-> Trim(CollapseWs(input[i], 1, <<>>))]
      kept == SelectSeq([i \in DOMAIN input |-> i],
                LAMBDA i : cleaned[i] # <<>> /\ \A j \in 1..(i - 1) : cleaned[j] # cleaned[i])
  IN [k \in DOMAIN kept |-> cleaned[kept[k]]]

----------------------------------------------------------------------------
(* Seat-order utilities (classroom.ts:65-93)                               *)

StudentIds(students) == [i \in DOMAIN students |-> students[i].id]

getOrderedStudentIdsRosterOrder(students, seats) == StudentIds(students)

\* First loop: seat i is taken when it holds a roster id that no earlier seat
\* holds.  Second loop: student i is appended when its id is not yet taken.
getOrderedStudentIds(students, seats) ==
  LET validIds == Range(StudentIds(students))
      seatKept == SelectSeq([i \in DOMAIN seats |-> i],
                    LAMBDA i : /\ seats[i] # Null
                               /\ seats[i] \in validIds
                               /\ \A j \in 1..(i - 1) : seats[j] # seats[i])
      seated == [k \in DOMAIN seatKept |-> seats[seatKept[k]]]
      seen == Range(seated)
      rosterKept == SelectSeq([i \in DOMAIN students |-> i],
                      LAMBDA i : /\ students[i].id \notin seen
                                 /\ \A j \in 1..(i - 1) : students[j].id # students[i].id)
  IN seated \o [k \in DOMAIN rosterKept |-> students[rosterKept[k]].id]

buildSeatsFromOrder(studentIds, capacity) ==
  [i \in 1..Max(0, capacity) |-> IF i <= Len(studentIds) THEN studentIds[i] ELSE Null]

----------------------------------------------------------------------------
(* Geometry calculator (classroom.ts:119-169)                              *)

getGroupCountBySizeFloor(studentCount) ==
  IF studentCount <= 0 THEN MIN_GROUPS
  ELSE Max(MIN_GROUPS, Min(MAX_GROUPS, studentCount \div GROUP_CAPACITY))

getGroupCountBySize(studentCount) ==
  IF studentCount <= 0 THEN MIN_GROUPS
  ELSE Max(MIN_GROUPS, Min(MAX_GROUPS, CeilDiv(studentCount, GROUP_CAPACITY)))

\* getActiveGroupIndices without the special case of four groups
getActiveGroupIndicesNoSkip(groupCount) == [i \in 1..groupCount |-> i - 1]

getActiveGroupIndices(groupCount) ==
  IF groupCount = 4 THEN <<0, 1, 2, 4>>
  ELSE [i \in 1..groupCount |-> i - 1]

\* getLayoutMetrics with Math.floor in place of Math.ceil for the THREE_ROWS columns
getLayoutMetricsFloor(layoutMode, studentCount) ==
  IF layoutMode = "GROUPS" THEN
    LET groupCount == getGroupCountBySize(studentCount)
    IN [mode |-> layoutMode, rows |-> groupCount * GROUP_ROWS, cols |-> GROUP_ROW_SIZE,
        groupCount |-> groupCount, capacity |-> MAX_GROUPS * GROUP_CAPACITY]
  ELSE IF layoutMode = "ARC" THEN
    [mode |-> layoutMode, rows |-> ARC_ROWS, cols |-> ARC_COLS,
     groupCount |-> 0, capacity |-> ARC_ROWS * ARC_COLS]
  ELSE
    LET basis == IF studentCount > 0 THEN studentCount
                 ELSE DEFAULT_THREE_ROW_COLS * THREE_ROWS
        cols == Max(MIN_SIZE, Min(MAX_THREE_ROW_COLS, basis \div THREE_ROWS))
    IN [mode |-> layoutMode, rows |-> THREE_ROWS, cols |-> cols,
        groupCount |-> 0, capacity |-> THREE_ROWS * cols]

getLayoutMetrics(layoutMode, studentCount) ==
  IF layoutMode = "GROUPS" THEN
    LET groupCount == getGroupCountBySize(studentCount)
    IN [mode |-> layoutMode, rows |-> groupCount * GROUP_ROWS, cols |-> GROUP_ROW_SIZE,
        groupCount |-> groupCount, capacity |-> MAX_GROUPS * GROUP_CAPACITY]
  ELSE IF layoutMode = "ARC" THEN
    [mode |-> layoutMode, rows |-> ARC_ROWS, cols |-> ARC_COLS,
     groupCount |-> 0, capacity |-> ARC_ROWS * ARC_COLS]
  ELSE
    LET basis == IF studentCount > 0 THEN studentCount
                 ELSE DEFAULT_THREE_ROW_COLS * THREE_ROWS
        cols == Max(MIN_SIZE, Min(MAX_THREE_ROW_COLS, CeilDiv(basis, THREE_ROWS)))
    IN [mode |-> layoutMode, rows |-> THREE_ROWS, cols |-> cols,
        groupCount |-> 0, capacity |-> THREE_ROWS * cols]

----------------------------------------------------------------------------
(* Centered placement (classroom.ts:173-196)                               *)

RECURSIVE PlaceCenteredLoop(_, _, _, _, _, _, _, _)
PlaceCenteredLoop(seats, studentIds, startIndex, rowWidth, centerLeft, centerRight, useLeft, idx) ==
  IF ~(idx < Len(studentIds) /\ (centerLeft >= 0 \/ centerRight < rowWidth)) THEN seats
  ELSE IF useLeft /\ centerLeft >= 0 THEN
    PlaceCenteredLoop(SetAt(seats, startIndex + centerLeft, studentIds[idx + 1]),
      studentIds, startIndex, rowWidth, centerLeft - 1, centerRight, ~useLeft, idx + 1)
  ELSE IF ~useLeft /\ centerRight < rowWidth THEN
    PlaceCenteredLoop(SetAt(seats, startIndex + centerRight, studentIds[idx + 1]),
      studentIds, startIndex, rowWidth, centerLeft, centerRight + 1, ~useLeft, idx + 1)
  ELSE
    PlaceCenteredLoop(seats, studentIds, startIndex, rowWidth,
      centerLeft, centerRight, ~useLeft, idx)

\* placeCentered starting on the right of the center
placeCenteredRightFirst(seats, studentIds, startIndex, rowWidth) ==
  LET centerLeft == (rowWidth - 1) \div 2
  IN PlaceCenteredLoop(seats, studentIds, startIndex, rowWidth,
       centerLeft, centerLeft + 1, FALSE, 0)

\* Math.floor((rowWidth - 1) / 2) rounds toward minus infinity, as \div does
placeCentered(seats, studentIds, startIndex, rowWidth) ==
  LET centerLeft == (rowWidth - 1) \div 2
  IN PlaceCenteredLoop(seats, studentIds, startIndex, rowWidth,
       centerLeft, centerLeft + 1, TRUE, 0)

----------------------------------------------------------------------------
(* Config helpers and the layout reconciler (classroom.ts:200-243)         *)

createEmptyConfig(layoutMode, studentCount) ==
  LET metrics == getLayoutMetrics(layoutMode, studentCount)
  IN [layoutMode |-> layoutMode, rows |-> metrics.rows, cols |-> metrics.cols,
      seats |-> createEmptySeats(metrics.capacity), rotationCount |-> 0,
      weekLabel |-> "week1", classTime |-> ""]

withLayout(config, layoutMode, students) ==
  LET metrics == getLayoutMetrics(layoutMode, Len(students))
      ordered == getOrderedStudentIds(students, config.seats)
  IN IF layoutMode = "ARC" THEN
       LET half == CeilDiv(Len(ordered), 2)
           firstRow == Slice(ordered, 0, half)
           secondRow == Slice(ordered, half, Len(ordered))
           seats == placeCentered(
                      placeCentered(createEmptySeats(metrics.capacity), firstRow, 0, ARC_COLS),
                      secondRow, ARC_COLS, ARC_COLS)
       IN [config EXCEPT !.layoutMode = layoutMode, !.rows = metrics.rows,
                         !.cols = metrics.cols, !.seats = seats]
     ELSE
       [config EXCEPT !.layoutMode = layoutMode, !.rows = metrics.rows,
                      !.cols = metrics.cols,
                      !.seats = buildSeatsFromOrder(ordered, metrics.capacity)]

----------------------------------------------------------------------------
(* Rotation engine (classroom.ts:252-421)                                  *)

\* The shared step of the three rotations: the non-empty occupants of a block
\* move to its front with the first one sent to the end; a block with fewer
\* than two occupants is left as it is.
RotateBlock(block) ==
  LET nonEmpty == NonEmpty(block)
      rotated == RotateFirstToLast(nonEmpty)
  IN IF Len(nonEmpty) > 1
       THEN [i \in 1..Len(block) |-> IF i <= Len(rotated) THEN rotated[i] ELSE Null]
       ELSE block

RECURSIVE RotateActiveGroups(_, _, _)
RotateActiveGroups(nextSeats, activeIndices, k) ==
  IF k > Len(activeIndices) THEN nextSeats
  ELSE LET start == activeIndices[k] * GROUP_CAPACITY
           groupStudents == [i \in 1..GROUP_CAPACITY |-> nextSeats[start + i]]
           rotated == RotateBlock(groupStudents)
       IN RotateActiveGroups(
            [s \in DOMAIN nextSeats |->
               IF s > start /\ s <= start + GROUP_CAPACITY THEN rotated[s - start]
               ELSE nextSeats[s]],
            activeIndices, k + 1)

rotateGroupLayout(config, students) ==
  LET normalized == withLayout(config, "GROUPS", students)
      groupCount == getGroupCountBySize(Len(students))
      activeIndices == getActiveGroupIndices(groupCount)
  IN [normalized EXCEPT !.seats = RotateActiveGroups(normalized.seats, activeIndices, 1),
                        !.rotationCount = normalized.rotationCount + 1]

\* getRotationMapping shifting the active slots the other way round
getRotationMappingForward(groupCount, rotationCount) ==
  LET activeIndices == getActiveGroupIndices(groupCount)
      n == Len(activeIndices)
      shift == rotationCount % n
  IN [pos \in 0..(MAX_GROUPS - 1) |->
        IF \E i \in 1..n : activeIndices[i] = pos
          THEN LET i == CHOOSE j \in 1..n : activeIndices[j] = pos
               IN activeIndices[((i - 1 + shift) % n) + 1]
          ELSE pos]

getRotationMapping(groupCount, rotationCount) ==
  LET activeIndices == getActiveGroupIndices(groupCount)
      n == Len(activeIndices)
      shift == rotationCount % n
  IN [pos \in 0..(MAX_GROUPS - 1) |->
        IF \E i \in 1..n : activeIndices[i] = pos
          THEN LET i == CHOOSE j \in 1..n : activeIndices[j] = pos
               IN activeIndices[((i - 1 - shift + n) % n) + 1]
          ELSE pos]

rotateThreeRowsShiftDown(config, students) ==
  LET normalized == withLayout(config, "THREE_ROWS", students)
      cols == normalized.cols
      leftSize == CeilDiv(cols, 2)
      left(row) == [c \in 1..leftSize |-> normalized.seats[row * cols + c]]
      right(row) == [c \in 1..(cols - leftSize) |-> normalized.seats[row * cols + leftSize + c]]
      rotatedRows == [r \in 1..THREE_ROWS |->
                        RotateBlock(left(r - 1)) \o RotateBlock(right(r - 1))]
      shifted == <<rotatedRows[3], rotatedRows[1], rotatedRows[2]>>
      nextSeats == [s \in 1..Len(normalized.seats) |->
                      shifted[((s - 1) \div cols) + 1][((s - 1) % cols) + 1]]
  IN [normalized EXCEPT !.seats = nextSeats,
                        !.rotationCount = normalized.rotationCount + 1]

rotateThreeRows(config, students) ==
  LET normalized == withLayout(config, "THREE_ROWS", students)
      cols == normalized.cols
      leftSize == CeilDiv(cols, 2)
      left(row) == [c \in 1..leftSize |-> normalized.seats[row * cols + c]]
      right(row) == [c \in 1..(cols - leftSize) |-> normalized.seats[row * cols + leftSize + c]]
      rotatedRows == [r \in 1..THREE_ROWS |->
                        RotateBlock(left(r - 1)) \o RotateBlock(right(r - 1))]
      shifted == <<rotatedRows[2], rotatedRows[3], rotatedRows[1]>>
      nextSeats == [s \in 1..Len(normalized.seats) |->
                      shifted[((s - 1) \div cols) + 1][((s - 1) % cols) + 1]]
  IN [normalized EXCEPT !.seats = nextSeats,
                        !.rotationCount = normalized.rotationCount + 1]

RECURSIVE RotateArcRows(_, _, _)
RotateArcRows(normalizedSeats, nextSeats, row) ==
  IF row >= ARC_ROWS THEN nextSeats
  ELSE LET start == row * ARC_COLS
           rowStudents == NonEmpty([col \in 1..ARC_COLS |-> normalizedSeats[start + col]])
           placed == IF Len(rowStudents) > 1
                       THEN placeCentered(nextSeats, RotateFirstToLast(rowStudents), start, ARC_COLS)
                       ELSE placeCentered(nextSeats, rowStudents, start, ARC_COLS)
       IN RotateArcRows(normalizedSeats, placed, row + 1)

rotateArcLayout(config, students) ==
  LET normalized == withLayout(config, "ARC", students)
  IN [normalized EXCEPT
        !.seats = RotateArcRows(normalized.seats, createEmptySeats(Len(normalized.seats)), 0),
        !.rotationCount = normalized.rotationCount + 1]

RECURSIVE ColorShift(_, _)
ColorShift(order, shifts) ==
  IF shifts = 0 THEN order
  ELSE ColorShift(<<order[3], order[4], order[5], order[6], order[1], order[2]>>, shifts - 1)

\* getThreeRowsColorOrder with a period of two rotations
getThreeRowsColorOrderMod2(rotationCount) == ColorShift(<<1, 2, 3, 4, 5, 6>>, rotationCount % 2)

getThreeRowsColorOrder(rotationCount) == ColorShift(<<1, 2, 3, 4, 5, 6>>, rotationCount % 3)

----------------------------------------------------------------------------
(* Classroom operations (classroom.ts:425-659).  nowTs is the value now()  *)
(* returns during the call, firstId the first id createId hands out.       *)

createClassroom(name, id, nowTs) ==
  LET defaultConfig == createEmptyConfig("GROUPS", 0)
  IN [id |-> id, name |-> name, students |-> <<>>, campus |-> "", building |-> "",
      room |-> "", sideNotes |-> "", updatedAt |-> nowTs,
      weekday |-> defaultConfig, weekend |-> defaultConfig]

getAssignedCount(config) == Cardinality({i \in DOMAIN config.seats : config.seats[i] # Null})

getUnassignedStudents(c, timeMode) ==
  SelectSeq(c.students, LAMBDA student : student.id \notin Range(c[timeMode].seats))

replaceStudentsNoLimit(c, names, timeMode, firstId, nowTs) ==
  LET sanitizedNames == uniqueNames(names)
      students == [i \in DOMAIN sanitizedNames |->
                     [id |-> firstId + i - 1, name |-> sanitizedNames[i]]]
      config == c[timeMode]
      metrics == getLayoutMetrics(config.layoutMode, Len(students))
      seats == buildSeatsFromOrder(StudentIds(students), metrics.capacity)
  IN [c EXCEPT !.students = students,
               ![timeMode] = [config EXCEPT !.rows = metrics.rows, !.cols = metrics.cols,
                                            !.seats = seats, !.rotationCount = 0],
               !.updatedAt = nowTs]

replaceStudents(c, names, timeMode, firstId, nowTs) ==
  LET sanitizedNames == Slice(uniqueNames(names), 0, MAX_STUDENTS)
      students == [i \in DOMAIN sanitizedNames |->
                     [id |-> firstId + i - 1, name |-> sanitizedNames[i]]]
      config == c[timeMode]
      metrics == getLayoutMetrics(config.layoutMode, Len(students))
      seats == buildSeatsFromOrder(StudentIds(students), metrics.capacity)
  IN [c EXCEPT !.students = students,
               ![timeMode] = [config EXCEPT !.rows = metrics.rows, !.cols = metrics.cols,
                                            !.seats = seats, !.rotationCount = 0],
               !.updatedAt = nowTs]

changeLayoutModeBothModes(c, layoutMode, timeMode, nowTs) ==
  [c EXCEPT !.weekday = withLayout(c.weekday, layoutMode, c.students),
            !.weekend = withLayout(c.weekend, layoutMode, c.students),
            !.updatedAt = nowTs]

changeLayoutModeResetCount(c, layoutMode, timeMode, nowTs) ==
  [c EXCEPT ![timeMode] = [withLayout(c[timeMode], layoutMode, c.students)
                             EXCEPT !.rotationCount = 0],
            !.updatedAt = nowTs]

changeLayoutMode(c, layoutMode, timeMode, nowTs) ==
  [c EXCEPT ![timeMode] = withLayout(c[timeMode], layoutMode, c.students),
            !.updatedAt = nowTs]

normalizeClassroomLayout(c, timeMode) ==
  [c EXCEPT ![timeMode] = withLayout(c[timeMode], c[timeMode].layoutMode, c.students)]

swapSeatAssignments(c, first, second, timeMode, nowTs) ==
  LET config == c[timeMode]
  IN IF first = second \/ first < 0 \/ second < 0
        \/ first >= Len(config.seats) \/ second >= Len(config.seats)
       THEN c
       ELSE [c EXCEPT ![timeMode].seats =
                        SetAt(SetAt(config.seats, first, config.seats[second + 1]),
                              second, config.seats[first + 1]),
                      !.updatedAt = nowTs]

clearSeatOffByOne(c, seatIndex, timeMode, nowTs) ==
  LET config == c[timeMode]
  IN IF seatIndex < 0 \/ seatIndex > Len(config.seats)
       THEN c
       ELSE [c EXCEPT ![timeMode].seats = SetAt(config.seats, seatIndex, Null),
                      !.updatedAt = nowTs]

clearSeat(c, seatIndex, timeMode, nowTs) ==
  LET config == c[timeMode]
  IN IF seatIndex < 0 \/ seatIndex >= Len(config.seats)
       THEN c
       ELSE [c EXCEPT ![timeMode].seats = SetAt(config.seats, seatIndex, Null),
                      !.updatedAt = nowTs]

placeStudentInSeatSwap(c, studentId, seatIndex, timeMode, nowTs) ==
  LET config == c[timeMode]
  IN IF seatIndex < 0 \/ seatIndex >= Len(config.seats) THEN c
     ELSE IF studentId \notin Range(StudentIds(c.students)) THEN c
     ELSE LET seats == [i \in DOMAIN config.seats |->
                          IF config.seats[i] = studentId
                            THEN config.seats[seatIndex + 1] ELSE config.seats[i]]
          IN [c EXCEPT ![timeMode].seats = SetAt(seats, seatIndex, studentId),
                       !.updatedAt = nowTs]

placeStudentInSeatNoVacate(c, studentId, seatIndex, timeMode, nowTs) ==
  LET config == c[timeMode]
  IN IF seatIndex < 0 \/ seatIndex >= Len(config.seats) THEN c
     ELSE IF studentId \notin Range(StudentIds(c.students)) THEN c
     ELSE [c EXCEPT ![timeMode].seats = SetAt(config.seats, seatIndex, studentId),
                    !.updatedAt = nowTs]

placeStudentInSeat(c, studentId, seatIndex, timeMode, nowTs) ==
  LET config == c[timeMode]
  IN IF seatIndex < 0 \/ seatIndex >= Len(config.seats) THEN c
     ELSE IF studentId \notin Range(StudentIds(c.students)) THEN c
     ELSE LET seats == [i \in DOMAIN config.seats |->
                          IF config.seats[i] = studentId THEN Null ELSE config.seats[i]]
          IN [c EXCEPT ![timeMode].seats = SetAt(seats, seatIndex, studentId),
                       !.updatedAt = nowTs]

rotateSeatsOnceOffByOne(c, timeMode, nowTs) ==
  LET config == c[timeMode]
  IN IF getAssignedCount(config) < 1 THEN c
     ELSE [c EXCEPT ![timeMode] =
                      IF config.layoutMode = "THREE_ROWS" THEN rotateThreeRows(config, c.students)
                      ELSE IF config.layoutMode = "ARC" THEN rotateArcLayout(config, c.students)
                      ELSE rotateGroupLayout(config, c.students),
                    !.updatedAt = nowTs]

rotateSeatsOnce(c, timeMode, nowTs) ==
  LET config == c[timeMode]
  IN IF getAssignedCount(config) <= 1 THEN c
     ELSE [c EXCEPT ![timeMode] =
                      IF config.layoutMode = "THREE_ROWS" THEN rotateThreeRows(config, c.students)
                      ELSE IF config.layoutMode = "ARC" THEN rotateArcLayout(config, c.students)
                      ELSE rotateGroupLayout(config, c.students),
                    !.updatedAt = nowTs]

\* The Fisher-Yates loop: i runs from length - 1 down to 1 (0-based); the
\* call-th call of Math.random() returns rnd[call] / RandomDenom.
RECURSIVE ShuffleLoop(_, _, _, _)
ShuffleLoop(ids, i, call, rnd) ==
  IF i <= 0 THEN ids
  ELSE LET randomIndex == (rnd[call] * (i + 1)) \div RandomDenom
       IN ShuffleLoop(SetAt(SetAt(ids, i, ids[randomIndex + 1]), randomIndex, ids[i + 1]),
                      i - 1, call + 1, rnd)

randomizeSeatsNoNormalize(c, timeMode, rnd, nowTs) ==
  LET config == c[timeMode]
      randomizedIds == ShuffleLoop(StudentIds(c.students), Len(c.students) - 1, 1, rnd)
      half == CeilDiv(Len(randomizedIds), 2)
      nextSeats ==
        IF config.layoutMode = "ARC"
          THEN placeCentered(
                 placeCentered(createEmptySeats(Len(config.seats)),
                               Slice(randomizedIds, 0, half), 0, ARC_COLS),
                 Slice(randomizedIds, half, Len(randomizedIds)), ARC_COLS, ARC_COLS)
          ELSE buildSeatsFromOrder(randomizedIds, Len(config.seats))
  IN [c EXCEPT ![timeMode] = [config EXCEPT !.seats = nextSeats],
               !.updatedAt = nowTs]

randomizeSeatsResetCount(c, timeMode, rnd, nowTs) ==
  LET config == c[timeMode]
      normalized == withLayout(config, config.layoutMode, c.students)
      randomizedIds == ShuffleLoop(StudentIds(c.students), Len(c.students) - 1, 1, rnd)
  IN [c EXCEPT ![timeMode] = [normalized EXCEPT
                   !.seats = buildSeatsFromOrder(randomizedIds, Len(normalized.seats)),
                   !.rotationCount = 0],
               !.updatedAt = nowTs]

randomizeSeats(c, timeMode, rnd, nowTs) ==
  LET config == c[timeMode]
      normalized == withLayout(config, config.layoutMode, c.students)
      randomizedIds == ShuffleLoop(StudentIds(c.students), Len(c.students) - 1, 1, rnd)
      half == CeilDiv(Len(randomizedIds), 2)
      nextSeats ==
        IF config.layoutMode = "ARC"
          THEN placeCentered(
                 placeCentered(createEmptySeats(Len(normalized.seats)),
                               Slice(randomizedIds, 0, half), 0, ARC_COLS),
                 Slice(randomizedIds, half, Len(randomizedIds)), ARC_COLS, ARC_COLS)
          ELSE buildSeatsFromOrder(randomizedIds, Len(normalized.seats))
  IN [c EXCEPT ![timeMode] = [normalized EXCEPT !.seats = nextSeats],
               !.updatedAt = nowTs]

----------------------------------------------------------------------------
(* The persisted document.  A JSON value is a record [t, v]: its type tag  *)
(* and its payload.  ToJson is JSON.parse(JSON.stringify(x)): an id, a     *)
(* name, a label and a timestamp become strings, a count a number, an      *)
(* empty seat null.  A timestamp string carries the instant it denotes.    *)

JStr(x) == [t |-> "string", v |-> x]
JNum(n) == [t |-> "number", v |-> n]
JArr(s) == [t |-> "array", v |-> s]
JObj(r) == [t |-> "object", v |-> r]
JNull == [t |-> "null", v |-> 0]
Undefined == [t |-> "undefined", v |-> 0]

Get(j, key) == IF j.t = "object" /\ key \in DOMAIN j.v THEN j.v[key] ELSE Undefined

\* typeof value === 'object' of a non-null value
IsObject(j) == j.t \in {"object", "array"}
IsArray(j) == j.t = "array"
IsString(j) == j.t = "string"
IsNumber(j) == j.t = "number"
Truthy(j) ==
  \/ IsObject(j)
  \/ j.t = "number" /\ j.v # 0
  \/ j.t = "string" /\ Len(j.v) > 0
  \/ j.t = "boolean" /\ j.v

StudentToJson(student) == JObj([id |-> JStr(student.id), name |-> JStr(student.name)])

ConfigToJson(config) ==
  JObj([layoutMode |-> JStr(config.layoutMode), rows |-> JNum(config.rows),
        cols |-> JNum(config.cols),
        seats |-> JArr([i \in DOMAIN config.seats |->
                          IF config.seats[i] = Null THEN JNull ELSE JStr(config.seats[i])]),
        rotationCount |-> JNum(config.rotationCount),
        weekLabel |-> JStr(config.weekLabel), classTime |-> JStr(config.classTime)])

ClassroomToJson(c) ==
  JObj([id |-> JStr(c.id), name |-> JStr(c.name),
        students |-> JArr([i \in DOMAIN c.students |-> StudentToJson(c.students[i])]),
        campus |-> JStr(c.campus), building |-> JStr(c.building), room |-> JStr(c.room),
        sideNotes |-> JStr(c.sideNotes), updatedAt |-> JStr(c.updatedAt),
        weekday |-> ConfigToJson(c.weekday), weekend |-> ConfigToJson(c.weekend)])

StateToJson(state) ==
  JObj([version |-> JNum(state.version),
        classrooms |-> JArr([i \in DOMAIN state.classrooms |->
                               ClassroomToJson(state.classrooms[i])]),
        activeClassroomId |-> IF state.activeClassroomId = Null THEN JNull
                              ELSE JStr(state.activeClassroomId),
        activeTimeMode |-> JStr(state.activeTimeMode)])

----------------------------------------------------------------------------
(* Normalization (part_001:1125-1288, 1541-1580)                           *)

UnnamedClassroom == <<9, 9>>

isStudent(value) ==
  /\ value.t = "object"
  /\ IsString(Get(value, "id"))
  /\ IsString(Get(value, "name"))

toStringOrDefault(value, fallback) == IF IsString(value) THEN value.v ELSE fallback

isLayoutMode(value) == IsString(value) /\ value.v \in LayoutModes
isTimeMode(value) == IsString(value) /\ value.v \in TimeModes

\* new Date(s).valueOf() is a number exactly when the string denotes an instant
IsDateString(value) == IsString(value) /\ value.v >= 0

\* candidate.seats.map(seat => typeof seat === 'string' && ids.has(seat) ? seat : null)
SeatsFromJson(seatsValue, studentIds) ==
  IF IsArray(seatsValue)
    THEN [i \in DOMAIN seatsValue.v |->
            IF IsString(seatsValue.v[i]) /\ seatsValue.v[i].v \in studentIds
              THEN seatsValue.v[i].v ELSE Null]
    ELSE <<>>

StudentsFromJson(studentsValue) ==
  IF IsArray(studentsValue)
    THEN LET kept == SelectSeq(studentsValue.v, isStudent)
         IN [i \in DOMAIN kept |->
               [id |-> Get(kept[i], "id").v, name |-> Get(kept[i], "name").v]]
    ELSE <<>>

createDefaultTimeModeConfig(students) ==
  LET metrics == getLayoutMetrics("GROUPS", Len(students))
  IN [layoutMode |-> "GROUPS", rows |-> metrics.rows, cols |-> metrics.cols,
      seats |-> [i \in 1..metrics.capacity |-> Null], rotationCount |-> 0,
      weekLabel |-> "week1", classTime |-> ""]

\* The config read from a candidate object; the caller has checked the object.
ConfigFromCandidate(candidate, students, layoutMode) ==
  LET metrics == getLayoutMetrics(layoutMode, Len(students))
  IN [layoutMode |-> layoutMode,
      rows |-> IF IsNumber(Get(candidate, "rows")) THEN Get(candidate, "rows").v
               ELSE metrics.rows,
      cols |-> IF IsNumber(Get(candidate, "cols")) THEN Get(candidate, "cols").v
               ELSE metrics.cols,
      seats |-> SeatsFromJson(Get(candidate, "seats"), Range(StudentIds(students))),
      rotationCount |-> IF IsNumber(Get(candidate, "rotationCount"))
                          THEN Get(candidate, "rotationCount").v ELSE 0,
      weekLabel |-> toStringOrDefault(Get(candidate, "weekLabel"), "week1"),
      classTime |-> toStringOrDefault(Get(candidate, "classTime"), "")]

\* JNull stands for the null the function returns
normalizeTimeModeConfig(value, students, fallbackMode) ==
  IF ~(Truthy(value) /\ IsObject(value)) THEN JNull
  ELSE ConfigFromCandidate(value, students,
         IF isLayoutMode(Get(value, "layoutMode")) THEN Get(value, "layoutMode").v
         ELSE fallbackMode)

ClassroomFromCandidate(candidate, students, weekday, weekend, nowTs) ==
  LET trimmed == Trim(Get(candidate, "name").v)
      c == [id |-> Get(candidate, "id").v,
            name |-> IF trimmed # <<>> THEN trimmed ELSE UnnamedClassroom,
            students |-> students,
            campus |-> toStringOrDefault(Get(candidate, "campus"), ""),
            building |-> toStringOrDefault(Get(candidate, "building"), ""),
            room |-> toStringOrDefault(Get(candidate, "room"), ""),
            sideNotes |-> toStringOrDefault(Get(candidate, "sideNotes"), ""),
            updatedAt |-> IF IsDateString(Get(candidate, "updatedAt"))
                            THEN Get(candidate, "updatedAt").v ELSE nowTs,
            weekday |-> weekday, weekend |-> weekend]
  IN normalizeClassroomLayout(normalizeClassroomLayout(c, "weekday"), "weekend")

migrateV2Classroom(candidate, students, nowTs) ==
  IF ~(IsString(Get(candidate, "id")) /\ IsString(Get(candidate, "name"))) THEN JNull
  ELSE
    LET rawStudents == IF IsArray(Get(candidate, "students"))
                         THEN StudentsFromJson(Get(candidate, "students")) ELSE students
        inferredMode ==
          IF isLayoutMode(Get(candidate, "layoutMode")) THEN Get(candidate, "layoutMode").v
          ELSE IF IsNumber(Get(candidate, "rows")) /\ Get(candidate, "rows").v <= 3
            THEN "THREE_ROWS"
          ELSE "GROUPS"
    IN ClassroomFromCandidate(candidate, rawStudents,
         ConfigFromCandidate(candidate, rawStudents, inferredMode),
         createDefaultTimeModeConfig(rawStudents), nowTs)

normalizeClassroom(value, nowTs) ==
  IF ~(Truthy(value) /\ IsObject(value)) THEN JNull
  ELSE IF ~(IsString(Get(value, "id")) /\ IsString(Get(value, "name"))) THEN JNull
  ELSE
    LET students == StudentsFromJson(Get(value, "students"))
        weekdayRead == normalizeTimeModeConfig(Get(value, "weekday"), students, "GROUPS")
        weekendRead == normalizeTimeModeConfig(Get(value, "weekend"), students, "GROUPS")
    IN IF /\ Len(students) = 0
          /\ ~Truthy(Get(value, "weekday"))
          /\ ~Truthy(Get(value, "weekend"))
          /\ IsArray(Get(value, "seats"))
         THEN migrateV2Classroom(value, students, nowTs)
         ELSE ClassroomFromCandidate(value, students,
                IF weekdayRead = JNull THEN createDefaultTimeModeConfig(students)
                ELSE weekdayRead,
                IF weekendRead = JNull THEN createDefaultTimeModeConfig(students)
                ELSE weekendRead,
                nowTs)

getEmptyState ==
  [version |-> APP_VERSION, classrooms |-> <<>>, activeClassroomId |-> Null,
   activeTimeMode |-> "weekday"]

\* What localStorage holds under a key: nothing, the empty string, a text
\* JSON.parse rejects, or the JSON text of a document.
Absent == [kind |-> "absent", doc |-> JNull]
EmptyText == [kind |-> "empty", doc |-> JNull]
Garbage == [kind |-> "garbage", doc |-> JNull]
JsonText(doc) == [kind |-> "json", doc |-> doc]

\* The storage before the application ever ran: neither key is set
EmptyStorage == [primary |-> Absent, legacy |-> Absent]

normalizeState(value, nowTs) ==
  IF ~(Truthy(value) /\ IsObject(value)) THEN JNull
  ELSE IF ~IsArray(Get(value, "classrooms")) THEN JNull
  ELSE
    LET raw == Get(value, "classrooms").v
        mapped == [i \in DOMAIN raw |-> normalizeClassroom(raw[i], nowTs)]
        classrooms == SelectSeq(mapped, LAMBDA c : c # JNull)
        active == Get(value, "activeClassroomId")
    IN [version |-> APP_VERSION,
        classrooms |-> classrooms,
        activeClassroomId |->
          IF IsString(active) /\ \E i \in DOMAIN classrooms : classrooms[i].id = active.v
            THEN active.v
          ELSE IF Len(classrooms) > 0 THEN classrooms[1].id
          ELSE Null,
        activeTimeMode |-> IF isTimeMode(Get(value, "activeTimeMode"))
                             THEN Get(value, "activeTimeMode").v ELSE "weekday"]

----------------------------------------------------------------------------
(* The classroom under the public operations.                              *)
(*   classroom  the classroom value the application holds                  *)
(*   clock      the instant of the last operation; now() is clock + 1      *)
(*   nextId     the next id createId hands out                             *)
(*   op         the last operation and its arguments                       *)
(*   rotStart, rotations  used by SpecRot only                             *)
(*   appState   the AppState the application holds (SpecApp only)          *)
(*   storage    the two localStorage keys (SpecApp only)                   *)
(*   migrations how often loadState has migrated legacy data (SpecApp)     *)

\* Inputs of the operations
ClassName == <<74, 51>>
RosterSizes == {0, 5, 20}
NamesOf(n) == [i \in 1..n |-> <<i + 1>>]
\* raw names with padding, a blank line and a repeat: two distinct names
DirtyNames == << <<2>>, <<0, 2, 1>>, <<>>, <<3, 0, 1, 4>>, <<1>>, <<3, 0, 4>> >>
NameInputs == {NamesOf(n) : n \in RosterSizes} \cup {DirtyNames}
SeatIndexInputs == {-1, 1, 6, 36}
RandomStreams ==
  {[call \in 1..MAX_STUDENTS |-> (k + call * step) % RandomDenom] :
     k \in 0..(RandomDenom - 1), step \in 0..1}

\* The index pairs swapSeatAssignments is handed: two seats in either order,
\* one seat twice, and an index below or past the seats on either side
SwapInputs == {<<1, 6>>, <<6, 1>>, <<1, 1>>, <<-1, 1>>, <<1, -1>>, <<36, 6>>, <<6, 36>>}

\* The student id an operation is handed: that of the k-th student of the
\* roster, or an id that no student has
StudentIdInput(k) ==
  IF k \in DOMAIN classroom.students THEN classroom.students[k].id ELSE nextId

\* What placeStudentInSeat is handed, <<k, seatIndex>>: the first two students
\* on two seats, an index below and one past the seats, and an unknown id
PlaceInputs == {<<1, 1>>, <<1, 6>>, <<2, 1>>, <<2, 6>>, <<1, -1>>, <<2, 36>>, <<0, 1>>}

AppStateOf(c) ==
  [version |-> APP_VERSION, classrooms |-> <<c>>, activeClassroomId |-> c.id,
   activeTimeMode |-> "weekday"]

NoOp == [name |-> "none", tm |-> "weekday", a |-> 0, b |-> 0]

Init ==
  /\ classroom = createClassroom(ClassName, 1, 0)
  /\ clock = 0
  /\ nextId = 2
  /\ op = NoOp
  /\ rotStart = classroom
  /\ rotations = 0
  /\ appState = getEmptyState
  /\ storage = EmptyStorage
  /\ migrations = 0

Step(name, tm, a, b, next) ==
  /\ clock < MaxClock
  /\ classroom' = next
  /\ clock' = clock + 1
  /\ op' = [name |-> name, tm |-> tm, a |-> a, b |-> b]
  /\ UNCHANGED <<rotStart, rotations, appState, storage, migrations>>

ReplaceStudents ==
  \E names \in NameInputs, tm \in TimeModes :
    /\ Step("replaceStudents", tm, Len(names), 0,
            replaceStudents(classroom, names, tm, nextId, clock + 1))
    /\ nextId' = nextId + Len(Slice(uniqueNames(names), 0, MAX_STUDENTS))

ChangeLayoutMode ==
  \E mode \in LayoutModes, tm \in TimeModes :
    /\ Step("changeLayoutMode", tm, mode, 0, changeLayoutMode(classroom, mode, tm, clock + 1))
    /\ UNCHANGED nextId

SwapSeatAssignments ==
  \E pair \in SwapInputs, tm \in TimeModes :
    /\ Step("swapSeatAssignments", tm, pair[1], pair[2],
            swapSeatAssignments(classroom, pair[1], pair[2], tm, clock + 1))
    /\ UNCHANGED nextId

ClearSeat ==
  \E seatIndex \in SeatIndexInputs, tm \in TimeModes :
    /\ Step("clearSeat", tm, seatIndex, 0, clearSeat(classroom, seatIndex, tm, clock + 1))
    /\ UNCHANGED nextId

PlaceStudentInSeat ==
  \E pair \in PlaceInputs, tm \in TimeModes :
    /\ Step("placeStudentInSeat", tm, pair[2], StudentIdInput(pair[1]),
            placeStudentInSeat(classroom, StudentIdInput(pair[1]), pair[2], tm, clock + 1))
    /\ UNCHANGED nextId

RotateSeatsOnce ==
  \E tm \in TimeModes :
    /\ Step("rotateSeatsOnce", tm, 0, 0, rotateSeatsOnce(classroom, tm, clock + 1))
    /\ UNCHANGED nextId

RandomizeSeats ==
  \E rnd \in RandomStreams, tm \in TimeModes :
    /\ Step("randomizeSeats", tm, 0, 0, randomizeSeats(classroom, tm, rnd, clock + 1))
    /\ UNCHANGED nextId

\* The application starts again: loadState reads the document saveState wrote
Reload ==
  /\ Step("normalizeState", "weekday", 0, 0,
          normalizeState(StateToJson(AppStateOf(classroom)), clock + 1).classrooms[1])
  /\ UNCHANGED nextId

Next ==
  \/ ReplaceStudents
  \/ ChangeLayoutMode
  \/ SwapSeatAssignments
  \/ ClearSeat
  \/ PlaceStudentInSeat
  \/ RotateSeatsOnce
  \/ RandomizeSeats
  \/ Reload

Spec == Init /\ [][Next]_vars

----------------------------------------------------------------------------
(* Rotation on its own: SpecRot starts from a classroom built by the       *)
(* public operations and applies rotateSeatsOnce to its weekday config.    *)
(* rotStart is the classroom before the first rotation, rotations the      *)
(* number of rotations applied since.                                      *)

RotRosterSizes == {2, 3, 4, 8, 9, 17, 20}
PlaceSeatInputs == {1, 4, 6, 8, 26}
ClearSeatInputs == {0, 1, 7}

\* Everybody seated by changeLayoutMode, then the seats of `cleared` emptied.
RECURSIVE ClearAll(_, _, _)
ClearAll(c, cleared, nowTs) ==
  IF cleared = {} THEN c
  ELSE LET seatIndex == CHOOSE i \in cleared : TRUE
       IN ClearAll(clearSeat(c, seatIndex, "weekday", nowTs), cleared \ {seatIndex}, nowTs + 1)

DenseClassroom(n, mode, cleared) ==
  ClearAll(
    changeLayoutMode(
      replaceStudents(createClassroom(ClassName, 1, 0), NamesOf(n), "weekday", 2, 1),
      mode, "weekday", 2),
    cleared, 3)

\* The layout chosen while the roster was empty and the roster imported under
\* the other time mode, so that nobody is seated; then student k of the
\* roster is put on seat placed[k].
RECURSIVE PlaceAll(_, _, _, _)
PlaceAll(c, placed, k, nowTs) ==
  IF k > Len(placed) THEN c
  ELSE PlaceAll(placeStudentInSeat(c, c.students[k].id, placed[k], "weekday", nowTs),
                placed, k + 1, nowTs + 1)

SparseClassroom(n, mode, placed) ==
  PlaceAll(
    replaceStudents(
      changeLayoutMode(createClassroom(ClassName, 1, 0), mode, "weekday", 1),
      NamesOf(n), "weekend", 2, 2),
    placed, 1, 3)

PlacedInputs(n) ==
  UNION {{placed \in [1..k -> PlaceSeatInputs] :
            \A i, j \in 1..k : i # j => placed[i] # placed[j]} :
         k \in 0..Min(n, MaxPlaced)}

ClearedInputs == {cleared \in SUBSET ClearSeatInputs : Cardinality(cleared) <= MaxCleared}

RotClassrooms ==
  UNION {{DenseClassroom(n, mode, cleared) : cleared \in ClearedInputs}
           \cup {SparseClassroom(n, mode, placed) : placed \in PlacedInputs(n)} :
         n \in RotRosterSizes, mode \in LayoutModes}

InitRot ==
  /\ classroom \in RotClassrooms
  /\ clock = classroom.updatedAt
  /\ nextId = 2 + Len(classroom.students)
  /\ op = NoOp
  /\ rotStart = classroom
  /\ rotations = 0
  /\ appState = getEmptyState
  /\ storage = EmptyStorage
  /\ migrations = 0

RotateOnce ==
  /\ rotations < MaxRotations
  /\ classroom' = rotateSeatsOnce(classroom, "weekday", clock + 1)
  /\ clock' = clock + 1
  /\ op' = [name |-> "rotateSeatsOnce", tm |-> "weekday", a |-> 0, b |-> 0]
  /\ rotations' = rotations + 1
  /\ UNCHANGED <<nextId, rotStart, appState, storage, migrations>>

NextRot == RotateOnce

SpecRot == InitRot /\ [][NextRot]_vars

----------------------------------------------------------------------------
(* Properties                                                              *)

SeatsUnique(seats) ==
  \A i, j \in DOMAIN seats : (i # j /\ seats[i] # Null) => seats[i] # seats[j]

RosterIds(c) == Range(StudentIds(c.students))

\* The occupants of group g (seat indices 6g .. 6g+5), in seat order
GroupOccupants(seats, g) ==
  NonEmpty(SubSeq(seats, g * GROUP_CAPACITY + 1, (g + 1) * GROUP_CAPACITY))

\* The students of row r of an ARC grid (seat indices 18r .. 18r+17)
ArcRowStudents(seats, r) ==
  {seats[i] : i \in (r * ARC_COLS + 1)..((r + 1) * ARC_COLS)} \ {Null}

\* C1 (Spec).  Seat uniqueness: in every state reached from createClassroom by
\* the public operations and normalizeState, no student id occurs in two
\* seats of the same time-mode config.
C1_SeatUniqueness == \A tm \in TimeModes : SeatsUnique(classroom[tm].seats)

\* A seated student has been moved by placeStudentInSeat: everybody is still
\* seated, the student sits on seat 6 and seat 1, where the second student of
\* the roster sat, is free.
C1_Witness ==
  /\ op.name = "placeStudentInSeat"
  /\ op.a = 6
  /\ Len(classroom.students) >= 2
  /\ op.b = classroom.students[2].id
  /\ classroom[op.tm].seats[7] = op.b
  /\ classroom[op.tm].seats[2] = Null
  /\ getAssignedCount(classroom[op.tm]) = Len(classroom.students)

\* C2 (Spec).  Seat validity: every non-empty seat of both the weekday and the
\* weekend config holds the id of a student of the current roster.
C2_SeatValidity ==
  \A tm \in TimeModes : \A i \in DOMAIN classroom[tm].seats :
    classroom[tm].seats[i] # Null => classroom[tm].seats[i] \in RosterIds(classroom)

\* C3 (Spec).  Seat-grid size: for both configs, seats.length is the capacity
\* getLayoutMetrics gives for the config's layout and the roster size.
C3_SeatGridSize ==
  \A tm \in TimeModes :
    Len(classroom[tm].seats)
      = getLayoutMetrics(classroom[tm].layoutMode, Len(classroom.students)).capacity

\* C4 (Spec).  Reload round trip: normalizeState applied to the JSON
\* serialization of a state produced by the public operations returns that
\* state.
C4_ReloadRoundTrip ==
  normalizeState(StateToJson(AppStateOf(classroom)), clock + 1) = AppStateOf(classroom)

\* C5 (SpecRot).  GROUPS rotation stays within groups: after rotateSeatsOnce on
\* a GROUPS config with at least two occupied seats, every student who sat in
\* group g still sits in group g.
C5_GroupsRotationKeepsGroups ==
  (/\ rotations = 1
   /\ rotStart.weekday.layoutMode = "GROUPS"
   /\ getAssignedCount(rotStart.weekday) >= 2)
  => \A i \in DOMAIN rotStart.weekday.seats :
       rotStart.weekday.seats[i] # Null =>
         \E j \in DOMAIN classroom.weekday.seats :
           /\ classroom.weekday.seats[j] = rotStart.weekday.seats[i]
           /\ (j - 1) \div GROUP_CAPACITY = (i - 1) \div GROUP_CAPACITY

\* C6 (SpecRot).  Rotation no-op boundary: in every layout mode,
\* rotateSeatsOnce on a config with zero or one occupied seat returns the
\* classroom it was given: same seats, same rotationCount, same updatedAt,
\* same roster.
C6_RotationNoOp ==
  [][(op'.name = "rotateSeatsOnce" /\ getAssignedCount(classroom[op'.tm]) <= 1)
       => classroom' = classroom]_vars

\* rotateSeatsOnce has been called on an ARC config with exactly one occupied
\* seat while other students of the roster have no seat.
C6_Witness ==
  /\ op.name = "rotateSeatsOnce"
  /\ classroom[op.tm].layoutMode = "ARC"
  /\ getAssignedCount(classroom[op.tm]) = 1
  /\ Len(getUnassignedStudents(classroom, op.tm)) >= 1
  /\ classroom[op.tm].rotationCount = 0
  /\ classroom.updatedAt < clock

\* C7 (SpecRot).  GROUPS cycle law: the m occupants of an active group (m = 2
\* in particular) are back in their original internal order after m
\* applications of rotateSeatsOnce: read in seat order, they follow one
\* another as they did before the first rotation.
C7_GroupsCycleLaw ==
  (rotStart.weekday.layoutMode = "GROUPS" /\ rotations >= 2)
  => \A g \in Range(getActiveGroupIndices(getGroupCountBySize(Len(rotStart.students)))) :
       LET occupants == GroupOccupants(rotStart.weekday.seats, g)
       IN Len(occupants) = rotations
            => SelectSeq(classroom.weekday.seats, LAMBDA id : id \in Range(occupants))
                 = occupants

\* C8 (Spec).  Rotation counter: rotateSeatsOnce on a config with at least two
\* occupied seats adds exactly 1 to that config's rotationCount; swap, clear,
\* place, changeLayoutMode and randomize leave both counters alone; a counter
\* only ever goes down by replaceStudents on its time mode, which sets it to 0.
C8_RotationCounter ==
  [][\A tm \in TimeModes :
       /\ (/\ op'.name = "rotateSeatsOnce"
           /\ op'.tm = tm
           /\ getAssignedCount(classroom[tm]) >= 2)
          => classroom'[tm].rotationCount = classroom[tm].rotationCount + 1
       /\ op'.name \in {"swapSeatAssignments", "clearSeat", "placeStudentInSeat",
                        "changeLayoutMode", "randomizeSeats"}
          => classroom'[tm].rotationCount = classroom[tm].rotationCount
       /\ (op'.name = "replaceStudents" /\ op'.tm = tm)
          => classroom'[tm].rotationCount = 0
       /\ classroom'[tm].rotationCount < classroom[tm].rotationCount
          => (op'.name = "replaceStudents" /\ op'.tm = tm)]_vars

\* A rotation has counted: the config rotated last has at least two occupied
\* seats and its counter is past 0.
C8_Witness ==
  /\ op.name = "rotateSeatsOnce"
  /\ getAssignedCount(classroom[op.tm]) >= 2
  /\ classroom[op.tm].rotationCount = 1
  /\ classroom.updatedAt = clock

\* Scenario B: a THREE_ROWS config of 6 columns whose only occupants are one
\* student in the left half of row 0 and one in its right half.
ScenarioB(c) ==
  LET config == c.weekday
      leftSize == CeilDiv(config.cols, 2)
  IN /\ config.layoutMode = "THREE_ROWS"
     /\ config.cols = 6
     /\ getLayoutMetrics("THREE_ROWS", Len(c.students)).cols = 6
     /\ Len(config.seats) = THREE_ROWS * config.cols
     /\ getAssignedCount(config) = 2
     /\ \E i \in 1..leftSize : config.seats[i] # Null
     /\ \E i \in (leftSize + 1)..config.cols : config.seats[i] # Null

\* C9 (SpecRot).  Scenario B: after one rotateSeatsOnce the two students occupy
\* row 2 at the columns they held in row 0, and row 0 holds what row 1 held.
C9_ScenarioB ==
  (rotations = 1 /\ ScenarioB(rotStart))
  => LET cols == rotStart.weekday.cols
         before == rotStart.weekday.seats
         after == classroom.weekday.seats
     IN /\ Len(after) = Len(before)
        /\ \A col \in 1..cols : before[col] # Null => after[2 * cols + col] = before[col]
        /\ \A col \in 1..cols : after[col] = before[cols + col]

\* C10 (SpecRot).  ARC rotation treats the two rows independently: after
\* rotateSeatsOnce on an ARC config with at least two occupied seats each row
\* holds the students it held before.
C10_ArcRowsIndependent ==
  (/\ rotations = 1
   /\ rotStart.weekday.layoutMode = "ARC"
   /\ getAssignedCount(rotStart.weekday) >= 2)
  => \A r \in 0..(ARC_ROWS - 1) :
       ArcRowStudents(classroom.weekday.seats, r) = ArcRowStudents(rotStart.weekday.seats, r)

\* The classroom is the one replaceStudents followed by changeLayoutMode
\* produces for its roster size and weekday layout: everybody seated.
LaidOut(c) == c = DenseClassroom(Len(c.students), c.weekday.layoutMode, {})

\* The 0-based seat index of a seated student
SeatOf(seats, id) == (CHOOSE i \in DOMAIN seats : seats[i] = id) - 1

\* Row and half (0 left, 1 right) of a seat of a THREE_ROWS grid, split as
\* rotateThreeRows splits a row: the left half has ceil(cols / 2) seats.
HalfRowOf(cols, seatIndex) ==
  <<seatIndex \div cols, IF seatIndex % cols < CeilDiv(cols, 2) THEN 0 ELSE 1>>

ShareHalfRow(config, a, b) ==
  /\ a \in Range(config.seats)
  /\ b \in Range(config.seats)
  /\ HalfRowOf(config.cols, SeatOf(config.seats, a))
       = HalfRowOf(config.cols, SeatOf(config.seats, b))

\* C11 (SpecRot).  THREE_ROWS rotation preserves half-rows: starting from a
\* THREE_ROWS config produced by replaceStudents/changeLayoutMode and rotating
\* repeatedly, two students who share a half-row before a rotation share one
\* after it.
C11_ThreeRowsKeepsHalfRows ==
  [][(/\ op'.name = "rotateSeatsOnce"
      /\ rotStart.weekday.layoutMode = "THREE_ROWS"
      /\ LaidOut(rotStart))
     => \A a, b \in RosterIds(classroom) :
          ShareHalfRow(classroom.weekday, a, b) => ShareHalfRow(classroom'.weekday, a, b)]_vars

\* C12 (SpecRot).  ARC rotation is a single m-cycle on a row: starting from an
\* ARC config produced by changeLayoutMode, a rotateSeatsOnce moves every
\* student of a row of m >= 2 students to a different seat; the students of
\* the row are back on their first seats after m rotations and not before.
C12_ArcRotationCycle ==
  [][(/\ op'.name = "rotateSeatsOnce"
      /\ rotStart.weekday.layoutMode = "ARC"
      /\ LaidOut(rotStart))
     => \A r \in 0..(ARC_ROWS - 1) :
          LET ids == ArcRowStudents(rotStart.weekday.seats, r)
              m == Cardinality(ids)
              before == classroom.weekday.seats
              after == classroom'.weekday.seats
              first == rotStart.weekday.seats
          IN m >= 2 =>
               /\ \A id \in ids : SeatOf(after, id) # SeatOf(before, id)
               /\ rotations' = m => \A id \in ids : SeatOf(after, id) = SeatOf(first, id)
               /\ rotations' < m => \A id \in ids : SeatOf(after, id) # SeatOf(first, id)]_vars

\* The groups rotateGroupLayout rotates and the page draws for the roster size
ActiveGroups(c) ==
  Range(getActiveGroupIndices(getGroupCountBySize(Len(c.students))))

\* C13 (Spec).  Active group slots hold the students: in a GROUPS config
\* produced by replaceStudents, changeLayoutMode or a rotateSeatsOnce that
\* rotates, every occupied seat index s has floor(s / 6) among
\* getActiveGroupIndices(getGroupCountBySize(roster size)).
C13_OccupiedGroupsAreActive ==
  [][(/\ classroom'[op'.tm].layoutMode = "GROUPS"
      /\ \/ op'.name \in {"replaceStudents", "changeLayoutMode"}
         \/ (op'.name = "rotateSeatsOnce" /\ getAssignedCount(classroom[op'.tm]) >= 2))
     => \A i \in DOMAIN classroom'[op'.tm].seats :
          classroom'[op'.tm].seats[i] # Null
            => (i - 1) \div GROUP_CAPACITY \in ActiveGroups(classroom')]_vars

----------------------------------------------------------------------------
(* A roster import on its own: SpecImport starts from a classroom built by *)
(* the public operations and applies replaceStudents once.  rotStart is    *)
(* the classroom before the import, op.b the list of names handed in.      *)

ImportPriorSizes == {0, 5}
ImportSizes == {0, 1, 3, 12, 36, 37}

\* 40 raw names: 38 distinct ones, the first and the third given a second
\* time with padding at the end of the list
ManyDirtyNames == NamesOf(38) \o << <<0, 2, 1>>, <<1, 4, 0, 0>> >>

ImportNameInputs ==
  {NamesOf(n) : n \in ImportSizes} \cup {DirtyNames, ManyDirtyNames}

\* A classroom with a roster of n and the layout chosen for the weekday, and
\* the same classroom after one rotation of the weekday
ImportClassrooms ==
  UNION {{DenseClassroom(n, mode, {}),
          rotateSeatsOnce(DenseClassroom(n, mode, {}), "weekday", 4)} :
         n \in ImportPriorSizes, mode \in LayoutModes}

InitImport ==
  /\ classroom \in ImportClassrooms
  /\ clock = classroom.updatedAt
  /\ nextId = 2 + Len(classroom.students)
  /\ op = NoOp
  /\ rotStart = classroom
  /\ rotations = 0
  /\ appState = getEmptyState
  /\ storage = EmptyStorage
  /\ migrations = 0

ImportNames ==
  \E names \in ImportNameInputs, tm \in TimeModes :
    /\ op.name = "none"
    /\ classroom' = replaceStudents(classroom, names, tm, nextId, clock + 1)
    /\ clock' = clock + 1
    /\ nextId' = nextId + Len(Slice(uniqueNames(names), 0, MAX_STUDENTS))
    /\ op' = [name |-> "replaceStudents", tm |-> tm, a |-> Len(names), b |-> names]
    /\ UNCHANGED <<rotStart, rotations, appState, storage, migrations>>

NextImport == ImportNames

SpecImport == InitImport /\ [][NextImport]_vars

\* The cleaned form of a raw name and the place of its first occurrence
CleanName(rawName) == Trim(CollapseWs(rawName, 1, <<>>))
FirstOccurrence(names, name) ==
  CHOOSE i \in DOMAIN names :
    /\ CleanName(names[i]) = name
    /\ \A j \in 1..(i - 1) : CleanName(names[j]) # name

\* C14 (SpecImport).  replaceStudents postcondition: the new roster is the
\* distinct non-blank names in first-occurrence order, cut to at most 36, each
\* with a fresh id; the chosen time mode's seats 0..n-1 hold those ids in
\* that order, every other seat is empty, and its rotationCount is 0.
C14_ReplaceStudentsPostcondition ==
  op.name = "replaceStudents" =>
    LET names == op.b
        roster == classroom.students
        n == Len(roster)
        config == classroom[op.tm]
        distinct == {CleanName(names[i]) : i \in DOMAIN names} \ {<<>>}
    IN /\ n = Min(MAX_STUDENTS, Cardinality(distinct))
       /\ \A k \in 1..n : roster[k].name \in distinct
       /\ \A k, l \in 1..n :
            k < l => FirstOccurrence(names, roster[k].name)
                       < FirstOccurrence(names, roster[l].name)
       /\ \A name \in distinct :
            (\A k \in 1..n : roster[k].name # name)
              => \A k \in 1..n : FirstOccurrence(names, roster[k].name)
                                   < FirstOccurrence(names, name)
       /\ \A k, l \in 1..n : k # l => roster[k].id # roster[l].id
       /\ \A k \in 1..n : /\ roster[k].id \notin RosterIds(rotStart)
                          /\ \A tm \in TimeModes : roster[k].id \notin Range(rotStart[tm].seats)
       /\ Len(config.seats) >= n
       /\ \A i \in DOMAIN config.seats :
            config.seats[i] = IF i <= n THEN roster[i].id ELSE Null
       /\ config.rotationCount = 0

\* 40 raw names holding 38 distinct ones have been imported into a classroom
\* whose weekday had been rotated: the roster stops at 36 students.
C14_Witness ==
  /\ op.name = "replaceStudents"
  /\ op.a = 40
  /\ op.tm = "weekday"
  /\ rotStart.weekday.rotationCount = 1
  /\ Len(classroom.students) = MAX_STUDENTS
  /\ getAssignedCount(classroom.weekday) = MAX_STUDENTS

----------------------------------------------------------------------------
(* Properties of the single operations                                     *)

OtherTimeMode(tm) == IF tm = "weekday" THEN "weekend" ELSE "weekday"

TimeModeOperations ==
  {"replaceStudents", "changeLayoutMode", "swapSeatAssignments", "clearSeat",
   "placeStudentInSeat", "rotateSeatsOnce", "randomizeSeats"}

\* C15 (Spec).  Time-mode independence: an operation that takes a timeMode
\* leaves the config of the other time mode as it was (layoutMode, rows,
\* cols, seats, rotationCount, weekLabel, classTime), from createClassroom on.
C15_TimeModeIndependence ==
  [][op'.name \in TimeModeOperations
       => classroom'[OtherTimeMode(op'.tm)] = classroom[OtherTimeMode(op'.tm)]]_vars

\* The weekday layout has been changed while the weekend holds seated
\* students in another layout.
C15_Witness ==
  /\ op.name = "changeLayoutMode"
  /\ op.tm = "weekday"
  /\ classroom.weekday.layoutMode = "ARC"
  /\ classroom.weekend.layoutMode = "GROUPS"
  /\ getAssignedCount(classroom.weekend) >= 2
  /\ getAssignedCount(classroom.weekday) >= 2

\* The classroom fields no seat operation writes
Metadata(c) ==
  [id |-> c.id, name |-> c.name, campus |-> c.campus, building |-> c.building,
   room |-> c.room, sideNotes |-> c.sideNotes]

\* C16 (Spec).  changeLayoutMode frame: the config of the given time mode gets
\* the requested layoutMode (op.a) and the rows and cols of
\* getLayoutMetrics(layout, roster size); its rotationCount, weekLabel and
\* classTime, the roster and the classroom's metadata stay as they were.
C16_ChangeLayoutModeFrame ==
  [][op'.name = "changeLayoutMode"
       => LET before == classroom[op'.tm]
              after == classroom'[op'.tm]
              metrics == getLayoutMetrics(op'.a, Len(classroom.students))
          IN /\ after.layoutMode = op'.a
             /\ after.rows = metrics.rows
             /\ after.cols = metrics.cols
             /\ after.rotationCount = before.rotationCount
             /\ after.weekLabel = before.weekLabel
             /\ after.classTime = before.classTime
             /\ classroom'.students = classroom.students
             /\ Metadata(classroom') = Metadata(classroom)]_vars

\* A rotated config has been given another layout.
C16_Witness ==
  /\ op.name = "changeLayoutMode"
  /\ op.a = "THREE_ROWS"
  /\ classroom[op.tm].layoutMode = "THREE_ROWS"
  /\ classroom[op.tm].rotationCount = 1
  /\ classroom[op.tm].cols = 2
  /\ Len(classroom.students) = 5

\* The 0-based column centered placement gives the k-th student (k = 1, 2, ..)
\* of a row of ARC_COLS seats: center-left first, then alternately right and left
CenteredColumn(k) ==
  IF k % 2 = 1 THEN (ARC_COLS - 1) \div 2 - (k - 1) \div 2
  ELSE (ARC_COLS - 1) \div 2 + k \div 2

\* Where the i-th student of a placement order of n sits, as a 0-based seat index
ExpectedSeat(layoutMode, n, i) ==
  IF layoutMode = "ARC"
    THEN IF i <= CeilDiv(n, 2) THEN CenteredColumn(i)
         ELSE ARC_COLS + CenteredColumn(i - CeilDiv(n, 2))
    ELSE i - 1

\* C17 (Spec).  Reconciliation order and completeness: after changeLayoutMode
\* every roster student is seated exactly once and nobody else is; the
\* placement order is the previously seated students in their previous seat
\* order, then the previously unseated ones in roster order; GROUPS and
\* THREE_ROWS are filled left to right, ARC takes the first ceil(n/2) into
\* row 0 and the rest into row 1, each by centered placement.
C17_ReconciliationOrder ==
  [][op'.name = "changeLayoutMode"
       => LET roster == StudentIds(classroom.students)
              n == Len(roster)
              before == classroom[op'.tm].seats
              after == classroom'[op'.tm].seats
              order == SelectSeq(before, LAMBDA id : id \in Range(roster))
                         \o SelectSeq(roster, LAMBDA id : id \notin Range(before))
          IN /\ Len(order) = n
             /\ getUnassignedStudents(classroom', op'.tm) = <<>>
             /\ getAssignedCount(classroom'[op'.tm]) = n
             /\ \A i \in 1..n :
                  after[ExpectedSeat(op'.a, n, i) + 1] = order[i]]_vars

\* An ARC layout has been laid out for five students after the first student
\* of the roster had been moved behind the others: the second student has the
\* center-left seat of row 0, the first one the second seat filled in row 1.
C17_Witness ==
  /\ op.name = "changeLayoutMode"
  /\ op.a = "ARC"
  /\ Len(classroom.students) = 5
  /\ getAssignedCount(classroom[op.tm]) = 5
  /\ classroom[op.tm].seats[9] = classroom.students[2].id
  /\ classroom[op.tm].seats[28] = classroom.students[1].id

\* C18 (Spec).  placeStudentInSeat effect: with studentId (op.b) in the roster
\* and seatIndex (op.a) in range, the student afterwards occupies seatIndex
\* and no other seat, the student who sat there before, if another one, has
\* no seat at all, and every other seat is as it was.
C18_PlaceStudentEffect ==
  [][(/\ op'.name = "placeStudentInSeat"
      /\ op'.b \in RosterIds(classroom)
      /\ op'.a >= 0
      /\ op'.a < Len(classroom[op'.tm].seats))
     => LET before == classroom[op'.tm].seats
            after == classroom'[op'.tm].seats
            target == op'.a + 1
            evicted == before[target]
        IN /\ DOMAIN after = DOMAIN before
           /\ after[target] = op'.b
           /\ \A i \in DOMAIN after \ {target} : after[i] # op'.b
           /\ (evicted # Null /\ evicted # op'.b) => evicted \notin Range(after)
           /\ \A i \in DOMAIN after \ {target} :
                after[i] = IF before[i] = op'.b THEN Null ELSE before[i]]_vars

\* The first student of a seated roster of five has been put on seat 1, which
\* the second student held: seat 0 is free and the second student has no seat.
C18_Witness ==
  /\ op.name = "placeStudentInSeat"
  /\ op.a = 1
  /\ Len(classroom.students) = 5
  /\ op.b = classroom.students[1].id
  /\ classroom[op.tm].seats[2] = op.b
  /\ classroom[op.tm].seats[1] = Null
  /\ classroom.students[2].id \notin Range(classroom[op.tm].seats)
  /\ getAssignedCount(classroom[op.tm]) = 4

\* A seat index of the config of time mode tm that is out of range
OutOfRange(c, tm, seatIndex) == seatIndex < 0 \/ seatIndex >= Len(c[tm].seats)

\* C19 (Spec).  Invalid calls are no-ops: swapSeatAssignments with equal
\* indices or an index out of range, clearSeat with an index out of range and
\* placeStudentInSeat with an index out of range or a studentId that is not in
\* the roster return the classroom they were given, updatedAt included.
C19_InvalidCallsAreNoOps ==
  [][(\/ /\ op'.name = "swapSeatAssignments"
         /\ \/ op'.a = op'.b
            \/ OutOfRange(classroom, op'.tm, op'.a)
            \/ OutOfRange(classroom, op'.tm, op'.b)
      \/ /\ op'.name = "clearSeat"
         /\ OutOfRange(classroom, op'.tm, op'.a)
      \/ /\ op'.name = "placeStudentInSeat"
         /\ \/ OutOfRange(classroom, op'.tm, op'.a)
            \/ op'.b \notin RosterIds(classroom))
     => classroom' = classroom]_vars

\* clearSeat has been called with seatIndex = seats.length on a config that
\* seats students: the classroom still carries the time of the operation before.
C19_Witness ==
  /\ op.name = "clearSeat"
  /\ op.a = Len(classroom[op.tm].seats)
  /\ getAssignedCount(classroom[op.tm]) >= 2
  /\ classroom.updatedAt < clock

\* The 0-based seat indices centered placement fills for m students in row r
CenteredSeats(r, m) == {r * ARC_COLS + CenteredColumn(k) : k \in 1..m}

\* C20 (Spec).  randomizeSeats outcome: whatever the shuffle draws, the config
\* seats every roster student exactly once and nobody else, seats.length is
\* the layout's capacity, layoutMode, rotationCount and the labels are as
\* before; GROUPS and THREE_ROWS occupy exactly seats 0..n-1, ARC holds
\* ceil(n/2) students centered in row 0 and the rest centered in row 1.
C20_RandomizeOutcome ==
  [][op'.name = "randomizeSeats"
       => LET before == classroom[op'.tm]
              after == classroom'[op'.tm]
              n == Len(classroom.students)
              occupied == {i - 1 : i \in {j \in DOMAIN after.seats : after.seats[j] # Null}}
          IN /\ classroom'.students = classroom.students
             /\ \A id \in RosterIds(classroom) :
                  Cardinality({i \in DOMAIN after.seats : after.seats[i] = id}) = 1
             /\ Range(after.seats) \ {Null} = RosterIds(classroom)
             /\ Len(after.seats) = getLayoutMetrics(before.layoutMode, n).capacity
             /\ after.layoutMode = before.layoutMode
             /\ after.rotationCount = before.rotationCount
             /\ after.weekLabel = before.weekLabel
             /\ after.classTime = before.classTime
             /\ occupied = IF before.layoutMode = "ARC"
                             THEN CenteredSeats(0, CeilDiv(n, 2))
                                    \cup CenteredSeats(1, n - CeilDiv(n, 2))
                             ELSE 0..(n - 1)]_vars

\* An ARC config of five students has been shuffled: everybody is seated and
\* the center-left seat of row 0 is no longer the first student's.
C20_Witness ==
  /\ op.name = "randomizeSeats"
  /\ classroom[op.tm].layoutMode = "ARC"
  /\ Len(classroom.students) = 5
  /\ getAssignedCount(classroom[op.tm]) = 5
  /\ classroom[op.tm].seats[9] # classroom.students[1].id

-----------------------------------------------------------------------------
(* Layout functions applied to drawn inputs                                *)
(* (classroom.ts:127-196, 289-309, 318-377, 411-421).  The initial state   *)
(* draws a student count / rotation count (op.a) and a layout mode (op.b); *)
(* each action applies one function once and records its arguments in op.a *)
(* and its result in op.b.                                                 *)

\* Largest student count and rotation count drawn.
MaxCount == 40

InitPure ==
  /\ classroom = createClassroom(ClassName, 1, 0)
  /\ clock = 0
  /\ nextId = 2
  /\ \E count \in 0..MaxCount, layoutMode \in LayoutModes :
       op = [name |-> "none", tm |-> "weekday", a |-> count, b |-> layoutMode]
  /\ rotStart = classroom
  /\ rotations = 0
  /\ appState = getEmptyState
  /\ storage = EmptyStorage
  /\ migrations = 0

Applied(name, a, b) ==
  /\ op.name = "none"
  /\ op' = [name |-> name, tm |-> "weekday", a |-> a, b |-> b]
  /\ UNCHANGED <<classroom, clock, nextId, rotStart, rotations, appState, storage, migrations>>

GetLayoutMetrics ==
  Applied("getLayoutMetrics", <<op.b, op.a>>, getLayoutMetrics(op.b, op.a))

GetActiveGroupIndices ==
  Applied("getActiveGroupIndices", op.a, getActiveGroupIndices(op.a))

\* The ids 1..count are placed into row 0 or row 1 of an empty ARC grid.
PlaceCentered ==
  \E row \in 0..(ARC_ROWS - 1) :
    Applied("placeCentered", <<op.a, row * ARC_COLS>>,
            placeCentered(createEmptySeats(ARC_ROWS * ARC_COLS),
                          [k \in 1..op.a |-> k], row * ARC_COLS, ARC_COLS))

GetRotationMapping ==
  \E groupCount \in MIN_GROUPS..MAX_GROUPS :
    Applied("getRotationMapping", <<groupCount, op.a>>,
            getRotationMapping(groupCount, op.a))

GetThreeRowsColorOrder ==
  Applied("getThreeRowsColorOrder", op.a, getThreeRowsColorOrder(op.a))

\* rotateThreeRows on the THREE_ROWS grid withLayout builds for count students
\* (ids 1..count), whose rotationCount is one of 0..2.
RotateThreeRowsOnce ==
  \E rotationCount \in 0..(THREE_ROWS - 1) :
    LET students == [k \in 1..op.a |-> [id |-> k, name |-> <<k>>]]
        config == [withLayout(createEmptyConfig("THREE_ROWS", op.a), "THREE_ROWS", students)
                     EXCEPT !.rotationCount = rotationCount]
    IN Applied("rotateThreeRows", config, rotateThreeRows(config, students))

\* normalizeClassroomLayout's withLayout on a table that withLayout has built
\* for the same roster (ids 1..count) in the layout drawn
NormalizeLayoutAgain ==
  LET students == [k \in 1..op.a |-> [id |-> k, name |-> <<k>>]]
      config == withLayout(createEmptyConfig(op.b, op.a), op.b, students)
  IN Applied("normalizeClassroomLayout", config,
             withLayout(config, config.layoutMode, students))

NextPure ==
  \/ GetLayoutMetrics
  \/ GetActiveGroupIndices
  \/ PlaceCentered
  \/ GetRotationMapping
  \/ GetThreeRowsColorOrder
  \/ RotateThreeRowsOnce
  \/ NormalizeLayoutAgain

SpecPure == InitPure /\ [][NextPure]_vars

\* C21 (SpecPure).  Capacity invariant: for every layout mode and every
\* student count n >= 0, getLayoutMetrics(layoutMode, n).capacity is at least
\* min(n, 36); the GROUPS capacity is exactly 36.
C21_CapacityInvariant ==
  op.name = "getLayoutMetrics"
    => LET layoutMode == op.a[1]
           n == op.a[2]
       IN /\ op.b.capacity >= Min(n, 36)
          /\ layoutMode = "GROUPS" => op.b.capacity = 36

\* 37 students in THREE_ROWS: the columns are capped at 12, the capacity is 36.
C21_Witness ==
  /\ op.name = "getLayoutMetrics"
  /\ op.a = <<"THREE_ROWS", 37>>
  /\ op.b.cols = 12
  /\ op.b.capacity = 36

\* C22 (SpecPure).  Active-group selection: getActiveGroupIndices(4) is
\* [0, 1, 2, 4]; for a group count g of 3, 5 or 6 it is [0, .., g - 1]; for
\* every group count of 3..6 the result has g distinct indices within 0..5.
C22_ActiveGroupIndices ==
  op.name = "getActiveGroupIndices"
    => LET g == op.a
           indices == op.b
       IN /\ g = 4 => indices = <<0, 1, 2, 4>>
          /\ g \in {3, 5, 6} => indices = [i \in 1..g |-> i - 1]
          /\ g \in MIN_GROUPS..MAX_GROUPS
               => /\ Len(indices) = g
                  /\ \A i, j \in 1..g : i # j => indices[i] # indices[j]
                  /\ \A i \in 1..g : indices[i] \in 0..5

\* Four groups: slot 3 is skipped and slot 4 is used.
C22_Witness ==
  /\ op.name = "getActiveGroupIndices"
  /\ op.a = 4
  /\ op.b = <<0, 1, 2, 4>>

\* C23 (SpecPure).  Centered placement order: placeCentered into an empty
\* row of 18 seats puts its ids, in order, at columns 8, 9, 7, 10, 6, 11, ..
\* (four ids at 8, 9, 7, 10); the occupied columns form one contiguous block
\* that contains column 8, with as many students left of the center as right
\* of it or one more; no seat outside the row is written and ids beyond the
\* eighteenth are not placed.
C23_CenteredPlacementOrder ==
  op.name = "placeCentered"
    => LET n == op.a[1]
           startIndex == op.a[2]
           seats == op.b
           placed == Min(n, 18)
           columns == {c \in 0..17 : seats[startIndex + c + 1] # Null}
           left == Cardinality({c \in columns : c <= 8})
           right == Cardinality({c \in columns : c >= 9})
       IN /\ Len(seats) = 36
          /\ \A k \in 1..placed :
               seats[startIndex + (IF k % 2 = 1 THEN 8 - (k - 1) \div 2
                                   ELSE 8 + k \div 2) + 1] = k
          /\ Cardinality(columns) = placed
          /\ \A i \in 1..36 : (i - 1 < startIndex \/ i - 1 >= startIndex + 18) => seats[i] = Null
          /\ n >= 1 =>
               /\ 8 \in columns
               /\ \A c, e \in columns : \A m \in c..e : m \in columns
               /\ left = right \/ left = right + 1

\* Four ids in row 0 sit at columns 8, 9, 7, 10 in that order.
C23_Witness ==
  /\ op.name = "placeCentered"
  /\ op.a = <<4, 0>>
  /\ op.b[9] = 1
  /\ op.b[10] = 2
  /\ op.b[8] = 3
  /\ op.b[11] = 4

\* C24 (SpecPure).  Display mapping: for every group count of 3..6 and every
\* rotation count, getRotationMapping is a permutation of 0..5; with A the
\* active-index list, n its length and shift = rotationCount mod n, the
\* mapping sends A[i] to A[(i - shift) mod n] and every inactive slot to
\* itself; over n consecutive rotation counts each active group is shown at
\* each active table exactly once.
C24_DisplayMapping ==
  op.name = "getRotationMapping"
    => LET groupCount == op.a[1]
           rotationCount == op.a[2]
           mapping == op.b
           A == getActiveGroupIndices(groupCount)
           n == Len(A)
           shift == rotationCount % n
           active == {A[i] : i \in 1..n}
       IN /\ DOMAIN mapping = 0..5
          /\ {mapping[pos] : pos \in 0..5} = 0..5
          /\ \A i \in 0..(n - 1) : mapping[A[i + 1]] = A[((i + n - shift) % n) + 1]
          /\ \A pos \in (0..5) \ active : mapping[pos] = pos
          /\ \A table \in active, group \in active :
               Cardinality({c \in rotationCount..(rotationCount + n - 1) :
                              getRotationMapping(groupCount, c)[table] = group}) = 1

\* Four groups after five rotations: the shift is 1, table 0 shows group 4,
\* table 4 shows group 2, and the inactive slots 3 and 5 show themselves.
C24_Witness ==
  /\ op.name = "getRotationMapping"
  /\ op.a = <<4, 5>>
  /\ op.b[0] = 4
  /\ op.b[4] = 2
  /\ op.b[3] = 3
  /\ op.b[5] = 5

\* The color (1..6) of the half-row a seated student is drawn in
\* (part_001:515-522: colorOrder[row * 2] left, colorOrder[row * 2 + 1] right)
ColorOf(config, id) ==
  LET halfRow == HalfRowOf(config.cols, SeatOf(config.seats, id))
  IN getThreeRowsColorOrder(config.rotationCount)[halfRow[1] * 2 + halfRow[2] + 1]

\* C25 (SpecPure).  Three-rows color order: getThreeRowsColorOrder(0) is
\* [1, 2, 3, 4, 5, 6], getThreeRowsColorOrder(1) is [3, 4, 5, 6, 1, 2]; for
\* every k the result is a permutation of 1..6, equal to [1..6] rotated left
\* by 2 * (k mod 3) positions, and equal to the result for k + 3; the color
\* of row r after a rotation is the color row r + 1 (mod 3) had before it,
\* which matches the row shift of rotateThreeRows: every student seated in
\* a full grid keeps their color across one rotateThreeRows call.
C25_ThreeRowsColorOrder ==
  /\ op.name = "getThreeRowsColorOrder"
       => LET k == op.a
              order == op.b
              next == getThreeRowsColorOrder(k + 1)
          IN /\ k = 0 => order = <<1, 2, 3, 4, 5, 6>>
             /\ k = 1 => order = <<3, 4, 5, 6, 1, 2>>
             /\ Len(order) = 6
             /\ Range(order) = 1..6
             /\ \A i \in 0..5 : order[i + 1] = ((i + 2 * (k % 3)) % 6) + 1
             /\ getThreeRowsColorOrder(k + 3) = order
             /\ \A r \in 0..2, side \in 0..1 :
                  next[2 * r + side + 1] = order[2 * ((r + 1) % 3) + side + 1]
  /\ op.name = "rotateThreeRows"
       => LET before == op.a
              after == op.b
          IN /\ after.rotationCount = before.rotationCount + 1
             /\ \A id \in Range(before.seats) \ {Null} :
                  /\ id \in Range(after.seats)
                  /\ SeatOf(after.seats, id) \div after.cols
                       = (SeatOf(before.seats, id) \div before.cols + 2) % 3
                  /\ ColorOf(after, id) = ColorOf(before, id)

\* After one rotation the colors of row 1 are shown in row 0.
C25_Witness ==
  /\ op.name = "getThreeRowsColorOrder"
  /\ op.a = 1
  /\ op.b = <<3, 4, 5, 6, 1, 2>>

-----------------------------------------------------------------------------
(* normalizeState applied to drawn documents (part_001:1550-1580).  The    *)
(* initial state draws the parsed document (op.a); the action stores the   *)
(* value normalizeState returns (JNull for null) in op.b.                  *)

\* Largest number of entries in the classrooms array of a drawn document.
MaxEntries == 2

FlatStudents ==
  JArr(<<StudentToJson([id |-> 11, name |-> <<2>>]),
         StudentToJson([id |-> 12, name |-> <<3>>])>>)

\* A saved classroom of the current format: two students in an ARC layout.
EntryCurrent == ClassroomToJson(DenseClassroom(2, "ARC", {}))
\* Flat entries: layout fields at the top level, no weekday / weekend keys.
EntryFlatEmptyRoster ==
  JObj([id |-> JStr(2), name |-> JStr(<<75>>), students |-> JArr(<<>>),
        layoutMode |-> JStr("ARC"), rows |-> JNum(2), cols |-> JNum(18),
        seats |-> JArr(<<JStr(12), JNull, JStr(11)>>), rotationCount |-> JNum(2),
        weekLabel |-> JStr("week7"), classTime |-> JStr("mon 9")])
EntryFlatRoster ==
  JObj([id |-> JStr(3), name |-> JStr(<<76>>), students |-> FlatStudents,
        layoutMode |-> JStr("THREE_ROWS"), rows |-> JNum(3), cols |-> JNum(1),
        seats |-> JArr(<<JStr(12), JNull, JStr(11)>>), rotationCount |-> JNum(2),
        weekLabel |-> JStr("week7"), classTime |-> JStr("mon 9")])
\* Entries the validation is about.
EntryNotObject == JStr(<<7>>)
EntryNoId == JObj([name |-> JStr(<<77>>), students |-> JArr(<<>>)])
EntryRosterNotArray ==
  JObj([id |-> JStr(5), name |-> JStr(<<78>>), students |-> JStr(<<7>>)])
EntryNegativeRotation ==
  JObj([id |-> JStr(6), name |-> JStr(<<79>>), students |-> FlatStudents,
        weekday |-> JObj([layoutMode |-> JStr("GROUPS"), seats |-> JArr(<<JStr(11)>>),
                          rotationCount |-> JNum(-1)]),
        weekend |-> JObj([layoutMode |-> JStr("ARC"), rotationCount |-> JStr(<<7>>)])])
\* A second entry with the id of EntryCurrent.
EntryDuplicateId ==
  JObj([id |-> JStr(1), name |-> JStr(<<80>>), students |-> JArr(<<>>)])

LoadEntries ==
  <<EntryCurrent, EntryFlatEmptyRoster, EntryFlatRoster, EntryNotObject, EntryNoId,
    EntryRosterNotArray, EntryNegativeRotation, EntryDuplicateId>>

DocumentOf(entries) ==
  JObj([version |-> JNum(APP_VERSION), classrooms |-> JArr(entries),
        activeClassroomId |-> JStr(1), activeTimeMode |-> JStr("weekend")])

\* The documents drawn: every classrooms array of at most MaxEntries entries,
\* and three documents without a classrooms array.
EntryChoices == UNION {[1..n -> DOMAIN LoadEntries] : n \in 0..MaxEntries}
OtherDocuments ==
  <<JNull, JObj([version |-> JNum(APP_VERSION)]),
    JObj([version |-> JNum(APP_VERSION), classrooms |-> JNull])>>

InitLoad ==
  /\ classroom = createClassroom(ClassName, 1, 0)
  /\ clock = 0
  /\ nextId = 2
  /\ \/ \E choice \in EntryChoices :
          op = [name |-> "none", tm |-> "weekday",
                a |-> DocumentOf([i \in DOMAIN choice |-> LoadEntries[choice[i]]]), b |-> 0]
     \/ \E i \in DOMAIN OtherDocuments :
          op = [name |-> "none", tm |-> "weekday", a |-> OtherDocuments[i], b |-> 0]
  /\ rotStart = classroom
  /\ rotations = 0
  /\ appState = getEmptyState
  /\ storage = EmptyStorage
  /\ migrations = 0

NormalizeState ==
  /\ op.name = "none"
  /\ op' = [name |-> "normalizeState", tm |-> "weekday", a |-> op.a,
            b |-> normalizeState(op.a, clock + 1)]
  /\ clock' = clock + 1
  /\ UNCHANGED <<classroom, nextId, rotStart, rotations, appState, storage, migrations>>

NextLoad == NormalizeState

SpecLoad == InitLoad /\ [][NextLoad]_vars

\* normalizeState returned a state, not null
Loaded == op.name = "normalizeState" /\ op.b # JNull

\* The entries of the document that normalizeClassroom keeps (an object with
\* a string id and a string name), and the entry the k-th classroom of the
\* result was read from.
EntryKept(entry) ==
  entry.t = "object" /\ IsString(Get(entry, "id")) /\ IsString(Get(entry, "name"))
KeptEntries == SelectSeq(Get(op.a, "classrooms").v, EntryKept)

\* A flat entry: no weekday and no weekend key, a top-level seats array
IsFlatEntry(entry) ==
  /\ EntryKept(entry)
  /\ Get(entry, "weekday").t = "undefined"
  /\ Get(entry, "weekend").t = "undefined"
  /\ IsArray(Get(entry, "seats"))

\* The roster ids found in a seats array of the document, in seat order
SeatOrderOf(seatsValue, students) ==
  LET ids == [i \in DOMAIN seatsValue.v |->
                IF IsString(seatsValue.v[i]) THEN seatsValue.v[i].v ELSE Null]
  IN SelectSeq(ids, LAMBDA id : id \in Range(StudentIds(students)))

\* C26 (SpecLoad).  Flat-shape migration: an entry without weekday and
\* weekend keys but with a top-level seats array, whatever its roster, is
\* loaded as a classroom whose weekday config carries the entry's layout
\* mode, rotation count, labels and seat occupancy order, and whose weekend
\* config is the default one with no occupied seat.
C26_FlatShapeMigration ==
  Loaded =>
    \A k \in DOMAIN KeptEntries :
      IsFlatEntry(KeptEntries[k]) =>
        LET entry == KeptEntries[k]
            c == op.b.classrooms[k]
        IN /\ c.weekday.layoutMode = Get(entry, "layoutMode").v
           /\ c.weekday.rotationCount = Get(entry, "rotationCount").v
           /\ c.weekday.weekLabel = Get(entry, "weekLabel").v
           /\ c.weekday.classTime = Get(entry, "classTime").v
           /\ NonEmpty(c.weekday.seats) = SeatOrderOf(Get(entry, "seats"), c.students)
           /\ c.weekend.layoutMode = "GROUPS"
           /\ c.weekend.rotationCount = 0
           /\ NonEmpty(c.weekend.seats) = <<>>

\* An entry the validation is said to accept: an object with a string id, a
\* string name and a roster that is an array
EntryValid(entry) == EntryKept(entry) /\ IsArray(Get(entry, "students"))

\* C27 (SpecLoad).  normalizeState totality: on any object whose classrooms
\* is an array it returns a state, never null; the classroom list of the
\* result is the in-order subsequence of the entries that pass validation:
\* an entry that is not an object, lacks a string id or name, or has a
\* roster that is not an array is dropped.
C27_NormalizeStateTotal ==
  (op.name = "normalizeState" /\ op.a.t = "object" /\ IsArray(Get(op.a, "classrooms")))
    => /\ op.b # JNull
       /\ LET valid == SelectSeq(Get(op.a, "classrooms").v, EntryValid)
          IN /\ Len(op.b.classrooms) = Len(valid)
             /\ \A k \in DOMAIN valid : op.b.classrooms[k].id = Get(valid[k], "id").v

\* C28 (SpecLoad).  Rotation count sanity after load: for any input document,
\* every config in the state normalizeState returns has a rotationCount that
\* is a non-negative integer; a missing or invalid value falls back to 0.
C28_RotationCountSanity ==
  Loaded =>
    \A k \in DOMAIN op.b.classrooms : \A tm \in TimeModes :
      /\ op.b.classrooms[k][tm].rotationCount \in Nat
      /\ ~IsNumber(Get(Get(KeptEntries[k], tm), "rotationCount"))
           => (IsFlatEntry(KeptEntries[k]) /\ tm = "weekday"
                 /\ IsNumber(Get(KeptEntries[k], "rotationCount")))
              \/ op.b.classrooms[k][tm].rotationCount = 0

\* C29 (SpecLoad).  Classroom ids are unique: in the state normalizeState
\* returns for any input document, no two classrooms of the list share an id.
C29_ClassroomIdsUnique ==
  Loaded =>
    \A i, j \in DOMAIN op.b.classrooms :
      i # j => op.b.classrooms[i].id # op.b.classrooms[j].id

-----------------------------------------------------------------------------
(* Migration of the legacy document (part_001:1292-1539).  The parsed      *)
(* classSeatingData object is the sequence Object.entries lists: pairs of  *)
(* a class name and the JSON value stored under it.  A layout name and a   *)
(* location field are strings; a student name is a sequence of characters. *)

JEntries(pairs) == [t |-> "entries", v |-> pairs]

\* typeof name === 'string' && name.trim(): the trimmed name, <<>> when none
LegacyName(value) == IF IsString(value) THEN Trim(value.v) ELSE <<>>

\* The non-blank trimmed names of an array of names, <<>> for any other value
LegacyNamesOf(value) ==
  IF IsArray(value)
    THEN SelectSeq([i \in DOMAIN value.v |-> LegacyName(value.v[i])],
                   LAMBDA name : name # <<>>)
    ELSE <<>>

RECURSIVE Concat(_)
Concat(seqs) == IF seqs = <<>> THEN <<>> ELSE Head(seqs) \o Concat(Tail(seqs))

\* The order in which a Set lists what was added to it
InsertionOrder(names) ==
  LET kept == SelectSeq([i \in DOMAIN names |-> i],
                        LAMBDA i : \A j \in 1..(i - 1) : names[j] # names[i])
  IN [k \in DOMAIN kept |-> names[kept[k]]]

LegacyLayoutIs(modeData, layout) ==
  IsString(Get(modeData, "layout")) /\ Get(modeData, "layout").v = layout

\* The names collectNamesFromLegacyMode adds, in the order it adds them
collectNamesFromLegacyMode(modeData) ==
  LET groups == Get(modeData, "groups")
      rowGroups == Get(modeData, "rowGroups")
      arcGroups == Get(modeData, "arcGroups")
      fromGroups ==
        IF (LegacyLayoutIs(modeData, "circular") \/ ~Truthy(Get(modeData, "layout")))
           /\ IsArray(groups)
          THEN Concat([i \in DOMAIN groups.v |-> LegacyNamesOf(groups.v[i])])
          ELSE <<>>
      fromRows ==
        IF LegacyLayoutIs(modeData, "rows") /\ Truthy(rowGroups)
           /\ IsArray(Get(rowGroups, "rows"))
          THEN LET rows == Get(rowGroups, "rows").v
               IN Concat([i \in DOMAIN rows |->
                            IF Truthy(rows[i]) /\ IsObject(rows[i])
                              THEN LegacyNamesOf(Get(rows[i], "left"))
                                     \o LegacyNamesOf(Get(rows[i], "right"))
                              ELSE <<>>])
          ELSE <<>>
      fromArc ==
        IF LegacyLayoutIs(modeData, "arc") /\ Truthy(arcGroups)
           /\ IsArray(Get(arcGroups, "rows"))
          THEN LET rows == Get(arcGroups, "rows").v
               IN Concat([i \in DOMAIN rows |-> LegacyNamesOf(rows[i])])
          ELSE <<>>
  IN fromGroups \o fromRows \o fromArc

getLocationInfo(modeData) ==
  LET info == Get(modeData, "locationInfo")
      field(key) == toStringOrDefault(Get(info, key), "")
  IN IF ~Truthy(modeData) \/ ~(Truthy(info) /\ IsObject(info))
       THEN [campus |-> "", floor |-> "", room |-> "", notes |-> "",
             date |-> "", day |-> "", weekday |-> "", time |-> ""]
       ELSE [campus |-> field("campus"), floor |-> field("floor"), room |-> field("room"),
             notes |-> field("notes"), date |-> field("date"), day |-> field("day"),
             weekday |-> field("weekday"), time |-> field("time")]

\* nameToId.get(name) when name is non-blank and nameToId.has(name), else Null
IdOfName(students, name) ==
  IF name # <<>> /\ \E i \in DOMAIN students : students[i].name = name
    THEN students[CHOOSE i \in DOMAIN students : students[i].name = name].id
    ELSE Null

\* The element of a JSON array at a 0-based index, Undefined past its end
ItemAt(value, i0) ==
  IF IsArray(value) /\ i0 + 1 \in DOMAIN value.v THEN value.v[i0 + 1] ELSE Undefined

\* rowNames of one row of arcGroups.rows: the ids of its known names, in order
ArcRowIds(rowData, students) ==
  LET names == LegacyNamesOf(rowData)
      known == SelectSeq(names, LAMBDA name : IdOfName(students, name) # Null)
  IN [i \in DOMAIN known |-> IdOfName(students, known[i])]

\* The label is built as date, month sign, day, day sign; the month sign is
\* written "m" and the day sign "d".
migrateLegacyTimeMode(modeData, students) ==
  IF ~Truthy(modeData) THEN createDefaultTimeModeConfig(students)
  ELSE
    LET layoutMode == IF LegacyLayoutIs(modeData, "rows") THEN "THREE_ROWS"
                      ELSE IF LegacyLayoutIs(modeData, "arc") THEN "ARC"
                      ELSE "GROUPS"
        metrics == getLayoutMetrics(layoutMode, Len(students))
        groups == Get(modeData, "groups")
        groupSeats ==
          [s \in 1..metrics.capacity |->
             IdOfName(students, LegacyName(ItemAt(ItemAt(groups, (s - 1) \div 6), (s - 1) % 6)))]
        rowGroups == Get(modeData, "rowGroups")
        cols == metrics.cols
        leftSize == CeilDiv(cols, 2)
        rowSeats ==
          [s \in 1..metrics.capacity |->
             LET r == ItemAt(Get(rowGroups, "rows"), (s - 1) \div cols)
                 c == (s - 1) % cols
             IN IF ~Truthy(rowGroups) THEN Null
                ELSE IF c < leftSize
                  THEN IdOfName(students, LegacyName(ItemAt(Get(r, "left"), c)))
                  ELSE IdOfName(students, LegacyName(ItemAt(Get(r, "right"), c - leftSize)))]
        arcGroups == Get(modeData, "arcGroups")
        arcRow(seats, row) ==
          LET rowData == ItemAt(Get(arcGroups, "rows"), row)
          IN IF Truthy(arcGroups) /\ IsArray(rowData)
               THEN placeCentered(seats, ArcRowIds(rowData, students), row * 18, 18)
               ELSE seats
        arcSeats == arcRow(arcRow(createEmptySeats(metrics.capacity), 0), 1)
        locationInfo == getLocationInfo(modeData)
    IN [layoutMode |-> layoutMode, rows |-> metrics.rows, cols |-> metrics.cols,
        seats |-> IF layoutMode = "GROUPS" THEN groupSeats
                  ELSE IF layoutMode = "THREE_ROWS" THEN rowSeats
                  ELSE arcSeats,
        rotationCount |-> IF IsNumber(Get(modeData, "currentArrangement"))
                            THEN Get(modeData, "currentArrangement").v ELSE 0,
        weekLabel |-> IF locationInfo.date # "" /\ locationInfo.day # ""
                        THEN locationInfo.date \o "m" \o locationInfo.day \o "d"
                        ELSE "week1",
        classTime |-> IF locationInfo.weekday # "" /\ locationInfo.time # ""
                        THEN locationInfo.weekday \o " " \o locationInfo.time
                        ELSE locationInfo.weekday \o locationInfo.time]

\* a || b on two strings
OrElse(a, b) == IF a # "" THEN a ELSE b

\* One class of the loop of migrateLegacyData; firstId is the first id
\* createMigrationId hands out for it (the students first, then the classroom).
LegacyClassNames(classEntry) ==
  InsertionOrder(
    (IF Truthy(Get(classEntry, "weekday"))
       THEN collectNamesFromLegacyMode(Get(classEntry, "weekday")) ELSE <<>>)
    \o (IF Truthy(Get(classEntry, "weekend"))
          THEN collectNamesFromLegacyMode(Get(classEntry, "weekend")) ELSE <<>>))

migrateLegacyClass(className, classEntry, firstId, nowTs) ==
  LET nameList == LegacyClassNames(classEntry)
      students == [k \in DOMAIN nameList |-> [id |-> firstId + k - 1, name |-> nameList[k]]]
      weekdayInfo == getLocationInfo(Get(classEntry, "weekday"))
      weekendInfo == getLocationInfo(Get(classEntry, "weekend"))
      c == [id |-> firstId + Len(nameList), name |-> className, students |-> students,
            campus |-> OrElse(weekdayInfo.campus, weekendInfo.campus),
            building |-> OrElse(weekdayInfo.floor, weekendInfo.floor),
            room |-> OrElse(weekdayInfo.room, weekendInfo.room),
            sideNotes |-> OrElse(weekdayInfo.notes, weekendInfo.notes),
            updatedAt |-> nowTs,
            weekday |-> migrateLegacyTimeMode(Get(classEntry, "weekday"), students),
            weekend |-> migrateLegacyTimeMode(Get(classEntry, "weekend"), students)]
  IN normalizeClassroomLayout(normalizeClassroomLayout(c, "weekday"), "weekend")

RECURSIVE MigrateLegacyLoop(_, _, _, _, _)
MigrateLegacyLoop(pairs, i, firstId, nowTs, classrooms) ==
  IF i > Len(pairs) THEN classrooms
  ELSE
    LET className == pairs[i][1]
        classValue == pairs[i][2]
    IN IF ~(Truthy(classValue) /\ IsObject(classValue))
         THEN MigrateLegacyLoop(pairs, i + 1, firstId, nowTs, classrooms)
       ELSE IF LegacyClassNames(classValue) = <<>>
         THEN MigrateLegacyLoop(pairs, i + 1, firstId, nowTs, classrooms)
       ELSE MigrateLegacyLoop(pairs, i + 1,
              firstId + Len(LegacyClassNames(classValue)) + 1, nowTs,
              Append(classrooms, migrateLegacyClass(className, classValue, firstId, nowTs)))

\* JNull stands for the null the function returns
migrateLegacyData(classData, firstId, nowTs) ==
  IF classData.t # "entries" THEN JNull
  ELSE
    LET classrooms == MigrateLegacyLoop(classData.v, 1, firstId, nowTs, <<>>)
    IN IF Len(classrooms) = 0 THEN JNull
       ELSE [version |-> APP_VERSION, classrooms |-> classrooms,
             activeClassroomId |-> classrooms[1].id, activeTimeMode |-> "weekday"]

-----------------------------------------------------------------------------
(* migrateLegacyData applied to drawn legacy documents                     *)
(* (part_001:1303-1382).  The initial state draws the parsed document      *)
(* (op.a); the action stores the state migrateLegacyData returns (JNull    *)
(* for null) in op.b.                                                      *)

\* Longest row of arcGroups.rows drawn.
MaxRowLen == 2

\* Raw student names; the second one is padded with whitespace
LegacyNames == {<<65>>, <<0, 66, 1>>, <<67>>}
LegacyRows == UNION {[1..n -> LegacyNames] : n \in 0..MaxRowLen}

NameList(names) == JArr([i \in DOMAIN names |-> JStr(names[i])])

LegacyLocation ==
  JObj([campus |-> JStr("north"), floor |-> JStr("2"), date |-> JStr("3"),
        day |-> JStr("14"), weekday |-> JStr("mon"), time |-> JStr("9")])

LegacyArcMode(r0, r1) ==
  JObj([layout |-> JStr("arc"),
        arcGroups |-> JObj([rows |-> JArr(<<NameList(r0), NameList(r1)>>)]),
        currentArrangement |-> JNum(2), locationInfo |-> LegacyLocation])

LegacyRowsMode ==
  JObj([layout |-> JStr("rows"),
        rowGroups |-> JObj([rows |-> JArr(<<
          JObj([left |-> NameList(<< <<65>> >>), right |-> NameList(<< <<68>> >>)]),
          JNull,
          JObj([right |-> NameList(<< <<>>, <<67>> >>)])>>)]),
        locationInfo |-> JObj([room |-> JStr("201"), weekday |-> JStr("sat")])])

\* No layout key: read as the circular (groups) layout
LegacyGroupsMode ==
  JObj([groups |-> JArr(<<NameList(<< <<67>>, <<>>, <<68>> >>), NameList(<<>>),
                          NameList(<< <<65>> >>)>>),
        currentArrangement |-> JStr("1")])

\* The weekend blocks drawn; Undefined is a class without a weekend key
LegacyWeekends == <<Undefined, LegacyRowsMode, LegacyGroupsMode>>

LegacyClassValue(weekday, weekend) ==
  IF weekend.t = "undefined" THEN JObj([weekday |-> weekday])
  ELSE JObj([weekday |-> weekday, weekend |-> weekend])

\* Documents that are not one arc class: no object, no class, and three
\* entries of which the first (not an object) and the second (no name) are skipped
OtherLegacyDocuments ==
  <<JNull, JEntries(<<>>),
    JEntries(<< <<ClassName, JNull>>,
                <<ClassName, JObj([weekday |-> JObj([layout |-> JStr("arc")])])>>,
                <<UnnamedClassroom, JObj([weekend |-> LegacyGroupsMode])>> >>)>>

InitLegacy ==
  /\ classroom = createClassroom(ClassName, 1, 0)
  /\ clock = 0
  /\ nextId = 2
  /\ \/ \E r0 \in LegacyRows, r1 \in LegacyRows, w \in DOMAIN LegacyWeekends :
          op = [name |-> "none", tm |-> "weekday",
                a |-> JEntries(<< <<ClassName,
                                    LegacyClassValue(LegacyArcMode(r0, r1), LegacyWeekends[w])>> >>),
                b |-> 0]
     \/ \E i \in DOMAIN OtherLegacyDocuments :
          op = [name |-> "none", tm |-> "weekday", a |-> OtherLegacyDocuments[i], b |-> 0]
  /\ rotStart = classroom
  /\ rotations = 0
  /\ appState = getEmptyState
  /\ storage = EmptyStorage
  /\ migrations = 0

MigrateLegacyData ==
  LET migrated == migrateLegacyData(op.a, nextId, clock + 1)
  IN /\ op.name = "none"
     /\ op' = [name |-> "migrateLegacyData", tm |-> "weekday", a |-> op.a, b |-> migrated]
     /\ clock' = clock + 1
     /\ nextId' = IF migrated = JNull THEN nextId
                  ELSE migrated.classrooms[Len(migrated.classrooms)].id + 1
     /\ UNCHANGED <<classroom, rotStart, rotations, appState, storage, migrations>>

NextLegacy == MigrateLegacyData

SpecLegacy == InitLegacy /\ [][NextLegacy]_vars

\* The document is one class whose weekday block has the arc layout
IsArcDocument ==
  /\ op.a.t = "entries"
  /\ Len(op.a.v) = 1
  /\ LegacyLayoutIs(Get(op.a.v[1][2], "weekday"), "arc")

\* The non-blank trimmed names of row r (0 or 1) of that block
LegacyArcRow(r) ==
  LegacyNamesOf(ItemAt(Get(Get(Get(op.a.v[1][2], "weekday"), "arcGroups"), "rows"), r))

\* C30 (SpecLegacy).  Legacy ARC migration keeps rows: a legacy class whose
\* weekday block has layout arc and arcGroups.rows = [R0, R1], no name
\* occurring twice in them, is migrated to a classroom whose roster holds the
\* names of R0 and R1, each once, and whose weekday config is ARC with row 0
\* holding exactly the students of R0 and row 1 exactly those of R1, each row
\* placed by centered placement in the order of the legacy row.
C30_LegacyArcKeepsRows ==
  (/\ op.name = "migrateLegacyData"
   /\ IsArcDocument
   /\ LegacyArcRow(0) \o LegacyArcRow(1) # <<>>
   /\ InsertionOrder(LegacyArcRow(0) \o LegacyArcRow(1)) = LegacyArcRow(0) \o LegacyArcRow(1))
    => /\ op.b # JNull
       /\ LET c == op.b.classrooms[1]
              seats == c.weekday.seats
              R0 == LegacyArcRow(0)
              R1 == LegacyArcRow(1)
          IN /\ \A i, j \in DOMAIN c.students :
                  i # j => c.students[i].name # c.students[j].name
             /\ Range(R0) \cup Range(R1) \subseteq {c.students[i].name : i \in DOMAIN c.students}
             /\ Get(op.a.v[1][2], "weekend").t = "undefined"
                  => [i \in DOMAIN c.students |-> c.students[i].name] = R0 \o R1
             /\ c.weekday.layoutMode = "ARC"
             /\ ArcRowStudents(seats, 0) = {IdOfName(c.students, R0[k]) : k \in DOMAIN R0}
             /\ ArcRowStudents(seats, 1) = {IdOfName(c.students, R1[k]) : k \in DOMAIN R1}
             /\ \A k \in DOMAIN R0 :
                  seats[CenteredColumn(k) + 1] = IdOfName(c.students, R0[k])
             /\ \A k \in DOMAIN R1 :
                  seats[ARC_COLS + CenteredColumn(k) + 1] = IdOfName(c.students, R1[k])

-----------------------------------------------------------------------------
(* Batch import (part_001:337-466).  The pasted text is a sequence of      *)
(* character codes.  Each keyword of the format (a fixed word of several   *)
(* characters in the source) is written as one code; the separators and    *)
(* digits have their own codes; the codes in WsChars are blanks.           *)

Newline == 10
Bang == 33
Comma == 44
Colon == 58
WideColon == 59
KwClassName == 201
KwCampus == 202
KwBuilding == 203
KwRoom == 204
KwWeekdayLayout == 205
KwWeekendLayout == 206
KwTime == 207
KwThreeRows == 211
KwArc == 212
KwGroup == 220
Digits == 48..57

\* String.prototype.split(separator) for a one-character separator
RECURSIVE Split(_, _)
Split(text, separator) ==
  IF \E i \in DOMAIN text : text[i] = separator
    THEN LET i == CHOOSE k \in DOMAIN text :
                    text[k] = separator /\ \A j \in 1..(k - 1) : text[j] # separator
         IN <<SubSeq(text, 1, i - 1)>> \o Split(SubSeq(text, i + 1, Len(text)), separator)
    ELSE <<text>>

\* String.prototype.indexOf(character): 0-based, -1 when absent
IndexOf(text, character) ==
  IF \E i \in DOMAIN text : text[i] = character
    THEN (CHOOSE k \in DOMAIN text :
            text[k] = character /\ \A j \in 1..(k - 1) : text[j] # character) - 1
    ELSE -1

\* String.prototype.substring(from) for from >= 0
Substring(text, from) == SubSeq(text, from + 1, Len(text))

\* line.startsWith(keyword + ':') || line.startsWith(keyword + wide colon)
StartsWithKey(line, keyword) ==
  Len(line) >= 2 /\ line[1] = keyword /\ line[2] \in {Colon, WideColon}

\* line.substring(line.indexOf(':') + 1).trim() || line.substring(line.indexOf(wide colon) + 1).trim()
ValueAfterColon(line) ==
  LET first == Trim(Substring(line, IndexOf(line, Colon) + 1))
  IN IF first # <<>> THEN first
     ELSE Trim(Substring(line, IndexOf(line, WideColon) + 1))

\* classText.trim() is empty: blanks and line breaks only
IsBlankText(text) == \A i \in DOMAIN text : text[i] \in WsChars \cup {Newline}

\* line.match(/^Group\s+\d+/i)
MatchesGroup(line) ==
  /\ Len(line) >= 3
  /\ line[1] = KwGroup
  /\ line[2] \in WsChars
  /\ \E d \in 3..Len(line) :
       /\ line[d] \in Digits
       /\ \A j \in 2..(d - 1) : line[j] \in WsChars

\* The non-blank trimmed pieces of a text cut at a separator
TrimmedPieces(text, separator) ==
  LET pieces == Split(text, separator)
  IN SelectSeq([i \in DOMAIN pieces |-> Trim(pieces[i])], LAMBDA piece : piece # <<>>)

LayoutOfWord(layoutStr) ==
  IF layoutStr = <<KwThreeRows>> THEN "THREE_ROWS"
  ELSE IF layoutStr = <<KwArc>> THEN "ARC"
  ELSE "GROUPS"

\* The variables of the loop over the lines of one block
EmptyBlockFields ==
  [className |-> <<>>, campus |-> "", building |-> "", room |-> "", currentTimeMode |-> "",
   weekday |-> [layout |-> "GROUPS", classTime |-> "", names |-> <<>>, hasConfig |-> FALSE],
   weekend |-> [layout |-> "GROUPS", classTime |-> "", names |-> <<>>, hasConfig |-> FALSE]]

\* What one line does to them
ReadLine(fields, line) ==
  IF StartsWithKey(line, KwClassName) THEN [fields EXCEPT !.className = ValueAfterColon(line)]
  ELSE IF StartsWithKey(line, KwCampus) THEN [fields EXCEPT !.campus = ValueAfterColon(line)]
  ELSE IF StartsWithKey(line, KwBuilding) THEN [fields EXCEPT !.building = ValueAfterColon(line)]
  ELSE IF StartsWithKey(line, KwRoom) THEN [fields EXCEPT !.room = ValueAfterColon(line)]
  ELSE IF StartsWithKey(line, KwWeekdayLayout) THEN
    [fields EXCEPT !.weekday.layout = LayoutOfWord(ValueAfterColon(line)),
                   !.weekday.hasConfig = TRUE, !.currentTimeMode = "weekday"]
  ELSE IF StartsWithKey(line, KwWeekendLayout) THEN
    [fields EXCEPT !.weekend.layout = LayoutOfWord(ValueAfterColon(line)),
                   !.weekend.hasConfig = TRUE, !.currentTimeMode = "weekend"]
  ELSE IF StartsWithKey(line, KwTime) THEN
    IF fields.currentTimeMode # ""
      THEN [fields EXCEPT ![fields.currentTimeMode].classTime =
                            Trim(Substring(line, IndexOf(line, Colon) + 1))]
      ELSE fields
  ELSE IF fields.currentTimeMode # "" /\ MatchesGroup(line) THEN
    [fields EXCEPT ![fields.currentTimeMode].names =
                     @ \o TrimmedPieces(Substring(line, IndexOf(line, Colon) + 1), Comma)]
  ELSE fields

RECURSIVE ReadLines(_, _, _)
ReadLines(fields, lines, i) ==
  IF i > Len(lines) THEN fields ELSE ReadLines(ReadLine(fields, lines[i]), lines, i + 1)

ReadBlock(classText) == ReadLines(EmptyBlockFields, TrimmedPieces(classText, Newline), 1)

\* The block throws: no class name, or no layout line for either time mode
BlockRejected(fields) ==
  fields.className = <<>> \/ (~fields.weekday.hasConfig /\ ~fields.weekend.hasConfig)

\* The ids createId hands out while one accepted block is imported: one for
\* the classroom and one for each student of every replaceStudents call
BlockIdCount(fields) ==
  LET allNames == InsertionOrder(fields.weekday.names \o fields.weekend.names)
      rosterSize == Len(Slice(uniqueNames(allNames), 0, MAX_STUDENTS))
  IN 1 + (IF fields.weekday.hasConfig /\ Len(allNames) > 0 THEN rosterSize ELSE 0)
       + (IF ~fields.weekend.hasConfig /\ Len(allNames) > 0 THEN rosterSize ELSE 0)

\* The weekday branch: roster, layout and class time of the weekday table
ImportWeekday(fields, allNames, created, firstId, nowTs) ==
  IF fields.weekday.hasConfig /\ Len(allNames) > 0
    THEN [changeLayoutMode(
            replaceStudents(created, allNames, "weekday", firstId + 1, nowTs),
            fields.weekday.layout, "weekday", nowTs)
            EXCEPT !.weekday.classTime = fields.weekday.classTime]
    ELSE created

\* The weekend table filled seat by seat from the roster
FillWeekend(fields, changed) ==
  LET studentIds == StudentIds(changed.students)
      metrics == getLayoutMetrics(fields.weekend.layout, Len(studentIds))
      seats == [i \in 1..metrics.capacity |->
                  IF i <= Len(studentIds) THEN studentIds[i] ELSE Null]
  IN [changed EXCEPT !.weekend.seats = seats,
                     !.weekend.classTime = fields.weekend.classTime]

\* The weekend branch, and the branch for a block without a weekend layout
ImportWeekend(fields, allNames, updated, firstId, nowTs) ==
  IF fields.weekend.hasConfig /\ Len(allNames) > 0 THEN
    FillWeekend(fields, changeLayoutMode(updated, fields.weekend.layout, "weekend", nowTs))
  ELSE IF ~fields.weekend.hasConfig /\ Len(allNames) > 0 THEN
    replaceStudents(updated, allNames, "weekend",
      firstId + 1 + (IF fields.weekday.hasConfig THEN Len(updated.students) ELSE 0), nowTs)
  ELSE updated

\* The classroom built from an accepted block (the body of the try)
ImportBlock(fields, firstId, nowTs) ==
  LET allNames == InsertionOrder(fields.weekday.names \o fields.weekend.names)
      created == [createClassroom(fields.className, firstId, nowTs)
                    EXCEPT !.campus = fields.campus, !.building = fields.building,
                           !.room = fields.room]
  IN ImportWeekend(fields, allNames,
       ImportWeekday(fields, allNames, created, firstId, nowTs), firstId, nowTs)

\* The loop over the blocks: the classrooms of the accepted ones, in order
RECURSIVE ImportBlocks(_, _, _, _, _)
ImportBlocks(classes, i, firstId, nowTs, newClassrooms) ==
  IF i > Len(classes) THEN newClassrooms
  ELSE LET fields == ReadBlock(classes[i])
       IN IF BlockRejected(fields)
            THEN ImportBlocks(classes, i + 1, firstId, nowTs, newClassrooms)
            ELSE ImportBlocks(classes, i + 1, firstId + BlockIdCount(fields), nowTs,
                   Append(newClassrooms, ImportBlock(fields, firstId, nowTs)))

BatchClasses(batchImportText) ==
  SelectSeq(Split(batchImportText, Bang), LAMBDA classText : ~IsBlankText(classText))

\* The final setState: the new classrooms join the list, the first is active
AddClassrooms(previous, newClassrooms) ==
  IF Len(newClassrooms) > 0
    THEN [previous EXCEPT !.classrooms = previous.classrooms \o newClassrooms,
                          !.activeClassroomId = newClassrooms[1].id]
    ELSE previous

\* The AppState after handleBatchImport
handleBatchImport(previous, batchImportText, firstId, nowTs) ==
  AddClassrooms(previous, ImportBlocks(BatchClasses(batchImportText), 1, firstId, nowTs, <<>>))

\* The ids handleBatchImport draws
BatchIdCount(batchImportText) ==
  LET classes == BatchClasses(batchImportText)
      counts == [i \in DOMAIN classes |->
                   IF BlockRejected(ReadBlock(classes[i])) THEN 0
                   ELSE BlockIdCount(ReadBlock(classes[i]))]
      sum[k \in 0..Len(classes)] == IF k = 0 THEN 0 ELSE sum[k - 1] + counts[k]
  IN sum[Len(classes)]

-----------------------------------------------------------------------------
(* One batch import into the empty application state.                      *)

MaxBlocks == 2

\* Lines of the format
LineOf(keyword, value) == <<keyword, Colon>> \o value
GroupLine(number, names) == <<KwGroup, 0, number, Colon>> \o names
JoinLines(lines) ==
  LET join[k \in 0..Len(lines)] ==
        IF k = 0 THEN <<>>
        ELSE IF k = 1 THEN lines[1] ELSE join[k - 1] \o <<Newline>> \o lines[k]
  IN join[Len(lines)]

\* The blocks a pasted text is built from
BlockBoth ==
  JoinLines(<< LineOf(KwClassName, <<0, 74, 51>>), LineOf(KwCampus, <<7>>),
               LineOf(KwWeekdayLayout, <<KwThreeRows>>), LineOf(KwTime, <<8>>),
               GroupLine(49, <<2, Comma, 0, 3, Comma>>),
               LineOf(KwWeekendLayout, <<KwArc>>),
               GroupLine(49, <<3, Comma, 4>>) >>)
\* the same with full-width colons after the keywords
BlockWideColon ==
  JoinLines(<< <<KwClassName, WideColon, 74, 56>>, <<KwWeekendLayout, WideColon, KwArc>>,
               GroupLine(49, <<2, Comma, 3>>) >>)
BlockWeekdayOnly ==
  JoinLines(<< LineOf(KwClassName, <<74, 52>>), LineOf(KwWeekdayLayout, <<KwArc>>),
               GroupLine(49, <<2, Comma, 3>>), GroupLine(50, <<4>>) >>)
BlockWeekendOnly ==
  JoinLines(<< LineOf(KwClassName, <<74, 53>>), LineOf(KwWeekendLayout, <<KwThreeRows>>),
               GroupLine(49, <<2, Comma, 3>>) >>)
BlockNoNames ==
  JoinLines(<< LineOf(KwClassName, <<74, 54>>), LineOf(KwBuilding, <<7>>),
               LineOf(KwRoom, <<8>>), LineOf(KwWeekdayLayout, <<>>) >>)
BlockNoClassName ==
  JoinLines(<< LineOf(KwWeekdayLayout, <<KwArc>>), GroupLine(49, <<2, Comma, 3>>) >>)
BlockNoLayout ==
  JoinLines(<< LineOf(KwClassName, <<74, 55>>), GroupLine(49, <<2, Comma, 3>>) >>)
BlockBlank == <<0, Newline, 1>>
BatchBlocks ==
  <<BlockBoth, BlockWeekdayOnly, BlockWeekendOnly, BlockNoNames, BlockNoClassName,
    BlockNoLayout, BlockBlank, BlockWideColon>>

\* A pasted text: up to MaxBlocks of the blocks, '!' between them
BatchTextOf(choice) ==
  LET join[k \in 0..Len(choice)] ==
        IF k = 0 THEN <<>>
        ELSE IF k = 1 THEN BatchBlocks[choice[1]]
        ELSE join[k - 1] \o <<Bang, Newline>> \o BatchBlocks[choice[k]]
  IN join[Len(choice)]
BatchChoices == UNION {[1..n -> DOMAIN BatchBlocks] : n \in 1..MaxBlocks}

InitBatch ==
  /\ classroom = createClassroom(ClassName, 1, 0)
  /\ clock = 0
  /\ nextId = 2
  /\ \E choice \in BatchChoices :
       op = [name |-> "none", tm |-> "weekday", a |-> choice, b |-> BatchTextOf(choice)]
  /\ rotStart = classroom
  /\ rotations = 0
  /\ appState = getEmptyState
  /\ storage = EmptyStorage
  /\ migrations = 0

\* handleBatchImport on the pasted text
HandleBatchImport ==
  /\ op.name = "none"
  /\ appState' = handleBatchImport(appState, op.b, nextId, clock + 1)
  /\ nextId' = nextId + BatchIdCount(op.b)
  /\ clock' = clock + 1
  /\ op' = [op EXCEPT !.name = "handleBatchImport"]
  /\ UNCHANGED <<classroom, rotStart, rotations, storage, migrations>>

NextBatch == HandleBatchImport

SpecBatch == InitBatch /\ [][NextBatch]_vars

\* The blocks of the last pasted text, read, and the accepted ones among them
PastedBlocks ==
  LET classes == BatchClasses(op.b) IN [i \in DOMAIN classes |-> ReadBlock(classes[i])]
AcceptedBlocks ==
  SelectSeq(PastedBlocks,
    LAMBDA fields : fields.className # <<>> /\ (fields.weekday.hasConfig \/ fields.weekend.hasConfig))
ListedNames(fields) ==
  Slice(uniqueNames(fields.weekday.names \o fields.weekend.names), 0, MAX_STUDENTS)
RosterNames(c) == {c.students[i].name : i \in DOMAIN c.students}
SeatsReferToRoster(c, config) ==
  \A i \in DOMAIN config.seats : config.seats[i] # Null => config.seats[i] \in RosterIds(c)

\* C31: after a batch import every accepted block has added one classroom,
\* rejected blocks have added none, and for an accepted block that lists a
\* name the classroom's roster holds every distinct listed name and every
\* occupied seat of its weekday and weekend tables holds a roster student
C31_BatchImportKeepsNamesAndSeats ==
  op.name = "handleBatchImport" =>
    /\ Len(appState.classrooms) = Len(AcceptedBlocks)
    /\ \A k \in DOMAIN AcceptedBlocks :
         k \in DOMAIN appState.classrooms /\ ListedNames(AcceptedBlocks[k]) # <<>> =>
           LET c == appState.classrooms[k]
           IN /\ Range(ListedNames(AcceptedBlocks[k])) \subseteq RosterNames(c)
              /\ SeatsReferToRoster(c, c.weekday)
              /\ SeatsReferToRoster(c, c.weekend)

-----------------------------------------------------------------------------
(* The application state and the two localStorage keys (part_001:68-235,   *)
(* 1303-1382, 1582-1622).                                                  *)

\* migrateLegacyData's read of the legacy key: no value, unparsable text and
\* a value that is not an object all give null
migrateLegacyStorage(store, firstId, nowTs) ==
  IF store.legacy.kind # "json" THEN JNull
  ELSE migrateLegacyData(store.legacy.doc, firstId, nowTs)

LoadMigratedUnsaved(store, migrated) ==
  IF migrated # JNull
    THEN [state |-> migrated, storage |-> store, readLegacy |-> TRUE, migrated |-> TRUE]
    ELSE [state |-> getEmptyState, storage |-> store,
          readLegacy |-> TRUE, migrated |-> FALSE]

\* loadState when the primary key holds no value: the migrated state is saved
\* under the primary key and returned; without one the state is empty
LoadMigrated(store, migrated) ==
  IF migrated # JNull
    THEN [state |-> migrated,
          storage |-> [store EXCEPT !.primary = JsonText(StateToJson(migrated))],
          readLegacy |-> TRUE, migrated |-> TRUE]
    ELSE [state |-> getEmptyState, storage |-> store,
          readLegacy |-> TRUE, migrated |-> FALSE]

\* loadState when the primary key holds a text JSON.parse accepts
LoadParsed(store, normalized) ==
  [state |-> IF normalized = JNull THEN getEmptyState ELSE normalized,
   storage |-> store, readLegacy |-> FALSE, migrated |-> FALSE]

\* loadState: the state returned, the storage it leaves, and whether it
\* called migrateLegacyData and whether that produced a state
loadState(store, firstId, nowTs) ==
  IF store.primary.kind \in {"absent", "empty"}
    THEN LoadMigrated(store, migrateLegacyStorage(store, firstId, nowTs))
  ELSE IF store.primary.kind = "garbage"
    THEN [state |-> getEmptyState, storage |-> store,
          readLegacy |-> FALSE, migrated |-> FALSE]
  ELSE LoadParsed(store, normalizeState(store.primary.doc, nowTs))

saveState(store, state) == [store EXCEPT !.primary = JsonText(StateToJson(state))]

\* parseBackup: null for a text JSON.parse rejects
parseBackup(rawText, nowTs) ==
  IF rawText.kind # "json" THEN JNull ELSE normalizeState(rawText.doc, nowTs)

handleCreateClassroomKeepActive(previous, newClassName, id, nowTs) ==
  LET name == Trim(newClassName)
  IN IF name = <<>> THEN previous
     ELSE [previous EXCEPT !.classrooms = Append(previous.classrooms,
                                                 createClassroom(name, id, nowTs))]

handleCreateClassroom(previous, newClassName, id, nowTs) ==
  LET name == Trim(newClassName)
  IN IF name = <<>> THEN previous
     ELSE LET created == createClassroom(name, id, nowTs)
          IN [previous EXCEPT !.classrooms = Append(previous.classrooms, created),
                              !.activeClassroomId = created.id]

handleDeleteClassroom(previous, classroomId, ok) ==
  IF ~\E i \in DOMAIN previous.classrooms : previous.classrooms[i].id = classroomId
    THEN previous
  ELSE IF ~ok THEN previous
  ELSE
    LET classrooms == SelectSeq(previous.classrooms, LAMBDA c : c.id # classroomId)
        nextActiveClassroomId ==
          IF previous.activeClassroomId = classroomId
            THEN IF Len(classrooms) > 0 THEN classrooms[1].id ELSE Null
            ELSE previous.activeClassroomId
    IN [previous EXCEPT !.classrooms = classrooms,
                        !.activeClassroomId = nextActiveClassroomId]

\* The class-select button of a listed classroom
selectClassroom(previous, classroomId) == [previous EXCEPT !.activeClassroomId = classroomId]

handleBackupFileChange(previous, rawText, nowTs) ==
  LET parsedState == parseBackup(rawText, nowTs)
  IN IF parsedState = JNull THEN previous ELSE parsedState

MaxAppSteps == 3

\* Values of the primary key and of backup files
TwoClassrooms ==
  [version |-> APP_VERSION,
   classrooms |-> <<DenseClassroom(2, "ARC", {}), createClassroom(<<75>>, 7, 0)>>,
   activeClassroomId |-> 7, activeTimeMode |-> "weekend"]
PrimaryValues ==
  <<Absent, EmptyText, Garbage,
    JsonText(StateToJson(TwoClassrooms)),
    JsonText(StateToJson([TwoClassrooms EXCEPT !.activeClassroomId = 9])),
    JsonText(JObj([classrooms |-> JArr(<<>>), activeClassroomId |-> JStr(7)])),
    JsonText(JObj([classrooms |-> JArr(<<EntryCurrent, EntryDuplicateId>>),
                   activeClassroomId |-> JNum(1)])),
    JsonText(JNull)>>
\* Values of the legacy key
LegacyValues ==
  <<Absent, EmptyText, Garbage, JsonText(JNull), JsonText(JEntries(<<>>)),
    JsonText(JEntries(<< <<ClassName,
       LegacyClassValue(LegacyArcMode(<<<<65>>, <<0, 66, 1>>>>, <<<<67>>>>), Undefined)>> >>)),
    JsonText(OtherLegacyDocuments[3])>>
ClassNameInputs == {<<0, 1>>, <<0, 74, 57>>}
BatchTextInputs == {BatchTextOf(<<3>>), BatchTextOf(<<5>>), BatchTextOf(<<6, 1>>)}
StaleClassroomId == 99
ClassroomIds(state) == {state.classrooms[i].id : i \in DOMAIN state.classrooms}

InitApp ==
  /\ classroom = createClassroom(ClassName, 1, 0)
  /\ clock = 0
  /\ nextId = 20
  /\ op = NoOp
  /\ rotStart = classroom
  /\ rotations = 0
  /\ appState = getEmptyState
  /\ migrations = 0
  /\ \E p \in DOMAIN PrimaryValues, l \in DOMAIN LegacyValues :
       storage = [primary |-> PrimaryValues[p], legacy |-> LegacyValues[l]]

\* A handler's setState followed by the effect that saves the new state
AppStep(name, a, b, nextState, store, ids) ==
  /\ clock < MaxAppSteps
  /\ appState' = nextState
  /\ storage' = saveState(store, appState')
  /\ clock' = clock + 1
  /\ nextId' = nextId + ids
  /\ op' = [name |-> name, tm |-> "weekday", a |-> a, b |-> b]
  /\ UNCHANGED <<classroom, rotStart, rotations, migrations>>

\* The page is opened: useState(() => loadState())
LoadState ==
  /\ clock < MaxAppSteps
  /\ op' = [name |-> "loadState", tm |-> "weekday",
            a |-> loadState(storage, nextId, clock + 1), b |-> storage]
  /\ appState' = op'.a.state
  /\ storage' = saveState(op'.a.storage, appState')
  /\ clock' = clock + 1
  /\ nextId' = IF op'.a.migrated
                 THEN appState'.classrooms[Len(appState'.classrooms)].id + 1
                 ELSE nextId
  /\ migrations' = IF op'.a.migrated THEN migrations + 1 ELSE migrations
  /\ UNCHANGED <<classroom, rotStart, rotations>>

CreateClassroom ==
  \E newClassName \in ClassNameInputs :
    /\ op.name # "none"
    /\ AppStep("handleCreateClassroom", newClassName, appState,
               handleCreateClassroom(appState, newClassName, nextId, clock + 1), storage, 1)

DeleteClassroom ==
  \E classroomId \in ClassroomIds(appState) \cup {StaleClassroomId}, ok \in BOOLEAN :
    /\ op.name # "none"
    /\ AppStep("handleDeleteClassroom", classroomId, appState,
               handleDeleteClassroom(appState, classroomId, ok), storage, 0)

SelectClassroom ==
  \E classroomId \in ClassroomIds(appState) :
    /\ op.name # "none"
    /\ AppStep("selectClassroom", classroomId, appState,
               selectClassroom(appState, classroomId), storage, 0)

BatchImport ==
  \E batchImportText \in BatchTextInputs :
    /\ op.name # "none"
    /\ AppStep("handleBatchImport", batchImportText, appState,
               handleBatchImport(appState, batchImportText, nextId, clock + 1), storage,
               BatchIdCount(batchImportText))

RestoreBackup ==
  \E i \in DOMAIN PrimaryValues :
    /\ op.name # "none"
    /\ PrimaryValues[i].kind # "absent"
    /\ AppStep("handleBackupFileChange", i, appState,
               handleBackupFileChange(appState, PrimaryValues[i], clock + 1), storage, 0)

NextApp ==
  \/ LoadState
  \/ CreateClassroom
  \/ DeleteClassroom
  \/ SelectClassroom
  \/ BatchImport
  \/ RestoreBackup

SpecApp == InitApp /\ [][NextApp]_vars

\* A step of LoadState, and whether getItem gives a key a non-empty text
LoadStep == op'.name = "loadState" /\ clock' = clock + 1
HasValue(item) == item.kind \notin {"absent", "empty"}

\* C32: loadState reads the legacy key only when the primary key holds no
\* value; a migration writes the migrated state under the primary key; once
\* a migration has happened every later loadState returns the state read
\* from the primary key and legacy data is never migrated a second time
C32_LoadStateMigratesOnce ==
  [][/\ LoadStep =>
          /\ op'.a.readLegacy => ~HasValue(storage.primary)
          /\ op'.a.migrated =>
               /\ op'.a.storage.primary = JsonText(StateToJson(op'.a.state))
               /\ appState' = op'.a.state
          /\ migrations >= 1 =>
               /\ storage.primary.kind = "json"
               /\ ~op'.a.readLegacy
               /\ appState' = normalizeState(storage.primary.doc, clock')
     /\ migrations' <= 1]_vars

\* A page load after the one that migrated, with the legacy data still stored
C32_Witness ==
  /\ op.name = "loadState"
  /\ migrations = 1
  /\ ~op.a.migrated
  /\ storage.legacy.kind = "json"
  /\ Len(appState.classrooms) > 0

\* The seats of one half of a THREE_ROWS row (row 0..2; side 0 left, 1 right)
ThreeRowsHalf(seats, cols, row, side) ==
  LET leftSize == CeilDiv(cols, 2)
  IN IF side = 0 THEN [c \in 1..leftSize |-> seats[row * cols + c]]
     ELSE [c \in 1..(cols - leftSize) |-> seats[row * cols + leftSize + c]]

\* A half after step 1: its occupants at the front in order, the first of
\* them moved behind the others when there are two or more
StepOneHalf(half) ==
  LET occupants == SelectSeq(half, LAMBDA seat : seat # Null)
      n == Len(occupants)
  IN [k \in 1..Len(half) |->
        IF k > n THEN Null
        ELSE IF n >= 2 THEN occupants[(k % n) + 1]
        ELSE occupants[k]]

\* C33: rotating a THREE_ROWS table with two or more occupied seats gives the
\* reconciled grid after step 1 in every half of every row and the row shift
\* new row 0 = old row 1, new row 1 = old row 2, new row 2 = old row 0
C33_ThreeRowsStep ==
  [][(/\ op'.name = "rotateSeatsOnce"
      /\ classroom[op'.tm].layoutMode = "THREE_ROWS"
      /\ getAssignedCount(classroom[op'.tm]) >= 2)
     => LET reconciled == withLayout(classroom[op'.tm], "THREE_ROWS", classroom.students)
            cols == reconciled.cols
        IN /\ classroom'[op'.tm].layoutMode = "THREE_ROWS"
           /\ classroom'[op'.tm].cols = cols
           /\ Len(classroom'[op'.tm].seats) = THREE_ROWS * cols
           /\ \A row \in 0..(THREE_ROWS - 1), side \in 0..1 :
                ThreeRowsHalf(classroom'[op'.tm].seats, cols, row, side)
                  = StepOneHalf(ThreeRowsHalf(reconciled.seats, cols,
                                              (row + 1) % THREE_ROWS, side))]_vars

\* A rotated THREE_ROWS table with students in all three rows and both halves
C33_Witness ==
  /\ op.name = "rotateSeatsOnce"
  /\ rotations >= 1
  /\ classroom.weekday.layoutMode = "THREE_ROWS"
  /\ classroom.weekday.cols >= 3
  /\ \A row \in 0..(THREE_ROWS - 1), side \in 0..1 :
       Len(SelectSeq(ThreeRowsHalf(classroom.weekday.seats, classroom.weekday.cols, row, side),
                     LAMBDA seat : seat # Null)) >= 1

\* C34: normalizing a table that withLayout has built for the same roster
\* returns the same seats in the same positions, for every layout and roster
C34_NormalizeIdempotent ==
  op.name = "normalizeClassroomLayout" => op.b.seats = op.a.seats

-----------------------------------------------------------------------------
(* The operations that never take a seat index from the user: roster       *)
(* import, layout change, rotation and shuffling.                          *)

NextArc ==
  \/ ReplaceStudents
  \/ ChangeLayoutMode
  \/ RotateSeatsOnce
  \/ RandomizeSeats

SpecArc == Init /\ [][NextArc]_vars

\* The occupied seat indices of one row of an ARC table
ArcRowOccupied(seats, r) ==
  {i - 1 : i \in {j \in (r * ARC_COLS + 1)..((r + 1) * ARC_COLS) : seats[j] # Null}}

\* C35: without manual seat edits every ARC table stays centered: in each row
\* the occupied columns are the ones centered placement fills for that many
\* students
C35_ArcStaysCentered ==
  \A tm \in TimeModes :
    classroom[tm].layoutMode = "ARC" =>
      \A r \in 0..(ARC_ROWS - 1) :
        ArcRowOccupied(classroom[tm].seats, r)
          = CenteredSeats(r, Cardinality(ArcRowOccupied(classroom[tm].seats, r)))

\* The roster students who hold a seat of a table
SeatedStudents(c, tm) == RosterIds(c) \cap Range(c[tm].seats)

\* C36: rotateSeatsOnce leaves the set of seated students as it was: a roster
\* student without a seat stays without one and a seated one stays seated
\* (stated for tables whose occupied seats all hold roster students)
C36_RotationKeepsSeatedSet ==
  [][(/\ op'.name = "rotateSeatsOnce"
      /\ clock' = clock + 1
      /\ (Range(classroom[op'.tm].seats) \ {Null}) \subseteq RosterIds(classroom))
     => SeatedStudents(classroom', op'.tm) = SeatedStudents(classroom, op'.tm)]_vars

\* C37: the active classroom id is null exactly when the classroom list is
\* empty, and otherwise it is the id of a classroom of the list
C37_ActiveClassroomValid ==
  /\ (appState.activeClassroomId = Null) <=> (Len(appState.classrooms) = 0)
  /\ Len(appState.classrooms) > 0 => appState.activeClassroomId \in ClassroomIds(appState)

\* The active classroom has just been deleted and others remain
C37_Witness ==
  /\ op.name = "handleDeleteClassroom"
  /\ op.a = op.b.activeClassroomId
  /\ Len(appState.classrooms) > 0
  /\ Len(appState.classrooms) < Len(op.b.classrooms)

\* C38: the GROUPS table has 3 groups for 0..18 students, 4 for 19..24, 5 for
\* 25..30 and 6 for 31 or more, with 3 rows per group and 2 columns; the
\* THREE_ROWS table has ceil(basis / 3) columns kept within 1..12, where
\* basis is the student count or 18 when there are no students, and a
\* capacity of 3 times its columns
C38_GroupCountThresholds ==
  op.name = "getLayoutMetrics"
    => LET layoutMode == op.a[1]
           n == op.a[2]
           basis == IF n > 0 THEN n ELSE 18
           ceilThird == (basis + 2) \div 3
       IN /\ layoutMode = "GROUPS" =>
               /\ op.b.groupCount = (IF n <= 18 THEN 3 ELSE IF n <= 24 THEN 4
                                     ELSE IF n <= 30 THEN 5 ELSE 6)
               /\ op.b.rows = 3 * op.b.groupCount
               /\ op.b.cols = 2
          /\ layoutMode = "THREE_ROWS" =>
               /\ op.b.cols = (IF ceilThird < 1 THEN 1
                               ELSE IF ceilThird > 12 THEN 12 ELSE ceilThird)
               /\ op.b.capacity = 3 * op.b.cols

\* The first roster size with four groups
C38_Witness ==
  /\ op.name = "getLayoutMetrics"
  /\ op.a = <<"GROUPS", 19>>
  /\ op.b.groupCount = 4
  /\ op.b.rows = 12

-----------------------------------------------------------------------------
(* placeCentered's loop, one iteration per step (classroom.ts:173-196).    *)
(* op.a holds the arguments of the call, op.b the local variables of the   *)
(* loop and the seats, with the number of iterations made and the indices  *)
(* written so far.                                                         *)

MaxWidth == 6

\* The variables at the first test of the loop condition
PlaceCenteredEntry(seats, rowWidth) ==
  [seats |-> seats, centerLeft |-> (rowWidth - 1) \div 2,
   centerRight |-> (rowWidth - 1) \div 2 + 1, useLeft |-> TRUE, idx |-> 0,
   steps |-> 0, written |-> <<>>]

\* The loop condition
PlaceCenteredContinues(args, loop) ==
  /\ loop.idx < Len(args.studentIds)
  /\ (loop.centerLeft >= 0 \/ loop.centerRight < args.rowWidth)

PlaceCenteredIterationNoFlip(args, loop) ==
  IF loop.useLeft /\ loop.centerLeft >= 0 THEN
    [loop EXCEPT !.seats = SetAt(loop.seats, args.startIndex + loop.centerLeft,
                                 args.studentIds[loop.idx + 1]),
                 !.centerLeft = loop.centerLeft - 1, !.idx = loop.idx + 1,
                 !.steps = loop.steps + 1,
                 !.written = Append(loop.written, args.startIndex + loop.centerLeft)]
  ELSE IF ~loop.useLeft /\ loop.centerRight < args.rowWidth THEN
    [loop EXCEPT !.seats = SetAt(loop.seats, args.startIndex + loop.centerRight,
                                 args.studentIds[loop.idx + 1]),
                 !.centerRight = loop.centerRight + 1, !.idx = loop.idx + 1,
                 !.steps = loop.steps + 1,
                 !.written = Append(loop.written, args.startIndex + loop.centerRight)]
  ELSE [loop EXCEPT !.steps = loop.steps + 1]

\* One pass through the loop body
PlaceCenteredIteration(args, loop) ==
  IF loop.useLeft /\ loop.centerLeft >= 0 THEN
    [loop EXCEPT !.seats = SetAt(loop.seats, args.startIndex + loop.centerLeft,
                                 args.studentIds[loop.idx + 1]),
                 !.centerLeft = loop.centerLeft - 1, !.idx = loop.idx + 1,
                 !.useLeft = ~loop.useLeft, !.steps = loop.steps + 1,
                 !.written = Append(loop.written, args.startIndex + loop.centerLeft)]
  ELSE IF ~loop.useLeft /\ loop.centerRight < args.rowWidth THEN
    [loop EXCEPT !.seats = SetAt(loop.seats, args.startIndex + loop.centerRight,
                                 args.studentIds[loop.idx + 1]),
                 !.centerRight = loop.centerRight + 1, !.idx = loop.idx + 1,
                 !.useLeft = ~loop.useLeft, !.steps = loop.steps + 1,
                 !.written = Append(loop.written, args.startIndex + loop.centerRight)]
  ELSE [loop EXCEPT !.useLeft = ~loop.useLeft, !.steps = loop.steps + 1]

\* The seats handed to the call: some are occupied already (ids 91 and up)
StartIndexInputs == {0, 2}
SeatsBefore == [i \in 1..(MaxWidth + 4) |-> IF i % 3 = 1 THEN 90 + i ELSE Null]

InitCentered ==
  /\ classroom = createClassroom(ClassName, 1, 0)
  /\ clock = 0
  /\ nextId = 2
  /\ \E count \in 0..(MaxWidth + 2), startIndex \in StartIndexInputs, rowWidth \in 0..MaxWidth :
       op = [name |-> "placeCentered", tm |-> "weekday",
             a |-> [seats |-> SeatsBefore, studentIds |-> [k \in 1..count |-> k],
                    startIndex |-> startIndex, rowWidth |-> rowWidth],
             b |-> PlaceCenteredEntry(SeatsBefore, rowWidth)]
  /\ rotStart = classroom
  /\ rotations = 0
  /\ appState = getEmptyState
  /\ storage = EmptyStorage
  /\ migrations = 0

LoopIteration ==
  /\ op.name = "placeCentered"
  /\ PlaceCenteredContinues(op.a, op.b)
  /\ op' = [op EXCEPT !.b = PlaceCenteredIteration(op.a, op.b)]
  /\ UNCHANGED <<classroom, clock, nextId, rotStart, rotations, appState, storage, migrations>>

LoopExit ==
  /\ op.name = "placeCentered"
  /\ ~PlaceCenteredContinues(op.a, op.b)
  /\ op' = [op EXCEPT !.name = "returned"]
  /\ UNCHANGED <<classroom, clock, nextId, rotStart, rotations, appState, storage, migrations>>

NextCentered ==
  \/ LoopIteration
  \/ LoopExit

SpecCentered == InitCentered /\ [][NextCentered]_vars

\* C39: the loop of placeCentered makes at most two iterations per id placed,
\* so it ends; it writes only seats startIndex .. startIndex + rowWidth - 1,
\* none of them twice, leaves every other seat as it was, and when it returns
\* it has written min(number of ids, rowWidth) seats, one for each of the
\* first ids and none for the ids beyond rowWidth (the seats then are the
\* ones the operator placeCentered gives)
C39_PlaceCenteredInRange ==
  LET args == op.a
      loop == op.b
      placed == Min(Len(args.studentIds), args.rowWidth)
  IN /\ loop.steps <= 2 * placed
     /\ \A k \in DOMAIN loop.written :
          /\ loop.written[k] >= args.startIndex
          /\ loop.written[k] < args.startIndex + args.rowWidth
          /\ \A j \in 1..(k - 1) : loop.written[j] # loop.written[k]
          /\ loop.seats[loop.written[k] + 1] = args.studentIds[k]
     /\ Len(loop.seats) = Len(args.seats)
     /\ \A i \in DOMAIN args.seats :
          (i - 1) \notin Range(loop.written) => loop.seats[i] = args.seats[i]
     /\ op.name = "returned" =>
          /\ Len(loop.written) = placed
          /\ loop.seats = placeCentered(args.seats, args.studentIds, args.startIndex,
                                        args.rowWidth)

\* A call with more ids than the row is wide has returned
C39_Witness ==
  /\ op.name = "returned"
  /\ op.a.rowWidth = 3
  /\ op.a.startIndex = 2
  /\ Len(op.a.studentIds) = 5
  /\ op.b.written = <<3, 4, 2>>

====
